---- MODULE Spec2Model ----
\* Model of WebhookService (services/webhookService): one instance, its
\* sendAudioToWebhook calls with their retry loops, per-attempt timeout race,
\* response decoding, and cleanup().
EXTENDS Integers, Sequences, FiniteSets, TLC

\* ------------------------------------------------------------------ bounds
\* Number of sendAudioToWebhook calls made on the instance.
MaxCalls == 2
\* Number of attempts, over all calls, that the environment lets fail by a
\* timeout, a fetch-level error or a non-ok status.
MaxFaults == 4
\* Presses of the voice button and calls of reset in one behaviour.
MaxPresses == 3
MaxResets == 1

\* ------------------------------------------------------- program constants
MAX_RETRIES == 3
TIMEOUT_MS == 20000
RETRY_DELAY_MS == 1000

Calls == 1..MaxCalls

\* ------------------------------------------------------------ JS values
\* A JSON value is [t, v] (primitives: t the JavaScript type tag, v the
\* string of a string or boolean) or [t, f] (an object and its fields).
Undefined == [t |-> "undefined", v |-> <<>>]
JNull == [t |-> "null", v |-> <<>>]
JBool(b) == [t |-> "boolean", v |-> IF b THEN <<"true">> ELSE <<"false">>]
JStr(s) == [t |-> "string", v |-> s]
\* A JSON object of the reply shapes: the five fields the code reads.
JObj(success, textResponse, audioResponse, answer, response) ==
  [t |-> "object",
   f |-> [success |-> success, textResponse |-> textResponse,
          audioResponse |-> audioResponse, answer |-> answer,
          response |-> response]]

\* Strings are sequences of tokens; a token is one character or a literal
\* chunk of text. The empty string is the empty sequence.
EmptyStr == <<>>

\* JavaScript truthiness of a value (used by && and ||).
Truthy(x) ==
  CASE x.t = "undefined" -> FALSE
    [] x.t = "null" -> FALSE
    [] x.t = "boolean" -> x.v = <<"true">>
    [] x.t = "string" -> x.v # EmptyStr
    [] x.t = "object" -> TRUE

\* a || b
Or(a, b) == IF Truthy(a) THEN a ELSE b

\* Property access data.f; on undefined or null it throws a TypeError, on a
\* primitive it yields undefined.
CanRead(x) == x.t \notin {"undefined", "null"}
Get(x, f) == IF x.t = "object" THEN x.f[f] ELSE Undefined

\* ------------------------------------------------------------ JSON.parse
\* JSON.parse on a token string. The grammar covered: null, true, false, a
\* string literal, {} and an object with one or two members whose values are
\* string literals or null. Anything else is a SyntaxError.
Quote == "\""
IsStrLit(s, i) ==
  \/ i + 1 <= Len(s) /\ s[i] = Quote /\ s[i + 1] = Quote
  \/ i + 2 <= Len(s) /\ s[i] = Quote /\ s[i + 1] # Quote /\ s[i + 2] = Quote
StrLitLen(s, i) == IF s[i + 1] = Quote THEN 2 ELSE 3
StrLitVal(s, i) == IF s[i + 1] = Quote THEN EmptyStr ELSE <<s[i + 1]>>
IsScalar(s, i) == (i <= Len(s) /\ s[i] = "null") \/ IsStrLit(s, i)
ScalarLen(s, i) == IF s[i] = "null" THEN 1 ELSE StrLitLen(s, i)
ScalarVal(s, i) == IF s[i] = "null" THEN JNull ELSE JStr(StrLitVal(s, i))
\* key : value starting at i
IsMember(s, i) ==
  /\ IsStrLit(s, i)
  /\ i + StrLitLen(s, i) <= Len(s)
  /\ s[i + StrLitLen(s, i)] = ":"
  /\ IsScalar(s, i + StrLitLen(s, i) + 1)
MemberLen(s, i) == StrLitLen(s, i) + 1 + ScalarLen(s, i + StrLitLen(s, i) + 1)
MemberKey(s, i) == StrLitVal(s, i)
MemberVal(s, i) == ScalarVal(s, i + StrLitLen(s, i) + 1)
EmptyObj == JObj(Undefined, Undefined, Undefined, Undefined, Undefined)
\* Object o with member key := val; keys the code never reads are dropped.
WithMember(o, key, val) ==
  IF key \in {<<"success">>, <<"textResponse">>, <<"audioResponse">>,
              <<"answer">>, <<"response">>}
  THEN [o EXCEPT !.f = [o.f EXCEPT ![key[1]] = val]]
  ELSE o
JsonParse(s) ==
  CASE s = <<"null">> -> [ok |-> TRUE, value |-> JNull]
    [] s = <<"true">> -> [ok |-> TRUE, value |-> JBool(TRUE)]
    [] s = <<"false">> -> [ok |-> TRUE, value |-> JBool(FALSE)]
    [] Len(s) >= 2 /\ IsStrLit(s, 1) /\ StrLitLen(s, 1) = Len(s) ->
         [ok |-> TRUE, value |-> JStr(StrLitVal(s, 1))]
    [] s = <<"{", "}">> -> [ok |-> TRUE, value |-> EmptyObj]
    [] Len(s) >= 2 /\ s[1] = "{" /\ IsMember(s, 2)
         /\ Len(s) = 2 + MemberLen(s, 2) /\ s[Len(s)] = "}" ->
         [ok |-> TRUE,
          value |-> WithMember(EmptyObj, MemberKey(s, 2), MemberVal(s, 2))]
    [] Len(s) >= 2 /\ s[1] = "{" /\ IsMember(s, 2)
         /\ 2 + MemberLen(s, 2) <= Len(s) /\ s[2 + MemberLen(s, 2)] = ","
         /\ IsMember(s, 3 + MemberLen(s, 2))
         /\ Len(s) = 3 + MemberLen(s, 2) + MemberLen(s, 3 + MemberLen(s, 2))
         /\ s[Len(s)] = "}" ->
         [ok |-> TRUE,
          value |-> WithMember(
                      WithMember(EmptyObj, MemberKey(s, 2), MemberVal(s, 2)),
                      MemberKey(s, 3 + MemberLen(s, 2)),
                      MemberVal(s, 3 + MemberLen(s, 2)))]
    [] OTHER -> [ok |-> FALSE, value |-> Undefined]

\* ------------------------------------------------------------------ atob
B64Alphabet ==
  {"A","B","C","D","E","F","G","H","I","J","K","L","M","N","O","P","Q","R",
   "S","T","U","V","W","X","Y","Z","a","b","c","d","e","f","g","h","i","j",
   "k","l","m","n","o","p","q","r","s","t","u","v","w","x","y","z","0","1",
   "2","3","4","5","6","7","8","9","+","/"}
AsciiWhitespace == {" ", "\t", "\n", "\f", "\r"}
\* Variant: the data URL prefix is left in place.
StripNothing(s) == s
\* data.audioResponse.replace(/^data:audio\/[^;]+;base64,/, '')
StripDataUrlPrefix(s) ==
  IF Len(s) >= 3 /\ s[1] = "data:audio/" /\ s[2] \notin {";", ";base64,"}
     /\ s[3] = ";base64,"
  THEN SubSeq(s, 4, Len(s))
  ELSE s
\* Variant: characters outside the base64 alphabet are skipped.
AtobSkipsUnknown(s) ==
  LET known == SelectSeq(s, LAMBDA ch : ch \in B64Alphabet)
  IN [ok |-> Len(known) % 4 # 1, chars |-> known]
\* atob: the forgiving-base64 decode. [ok, chars]: chars are the data
\* characters that were decoded; the decoded length is (6 * Len(chars)) \div 8.
Atob(s) ==
  LET noWs == SelectSeq(s, LAMBDA ch : ch \notin AsciiWhitespace)
      n == Len(noWs)
      unpadded ==
        IF n > 0 /\ n % 4 = 0
        THEN IF noWs[n] = "=" /\ noWs[n - 1] = "="
             THEN SubSeq(noWs, 1, n - 2)
             ELSE IF noWs[n] = "=" THEN SubSeq(noWs, 1, n - 1) ELSE noWs
        ELSE noWs
  IN IF Len(unpadded) % 4 = 1
        \/ \E i \in 1..Len(unpadded) : unpadded[i] \notin B64Alphabet
     THEN [ok |-> FALSE, chars |-> <<>>]
     ELSE [ok |-> TRUE, chars |-> unpadded]
NoBlob == [type |-> "", size |-> 0, data |-> <<>>]
\* new Blob([bytes], { type: 'audio/mpeg' }) of the decoded characters
AudioBlob(chars) ==
  [type |-> "audio/mpeg", size |-> (6 * Len(chars)) \div 8, data |-> chars]

\* ------------------------------------------------- response normalization
Placeholder == <<"Vastausta ei saatu.">>
NoResult == [json |-> FALSE, text |-> Undefined, audioUrl |-> 0]
\* return <text>
PlainResult(v) == [json |-> FALSE, text |-> v, audioUrl |-> 0]
\* return JSON.stringify({ text, audioUrl })
JsonResult(v, url) == [json |-> TRUE, text |-> v, audioUrl |-> url]
\* Variant: the blobs of a returned result are not registered.
ReturnedUnregistered(r, created) ==
  [kind |-> "return", result |-> r, created |-> <<>>]
\* created: the blobs handed to URL.createObjectURL on the way
Returned(r, created) == [kind |-> "return", result |-> r, created |-> created]
Thrown(created) == [kind |-> "throw", result |-> NoResult, created |-> created]

\* Variant: no placeholder when both fields are missing or empty.
TextOfNoPlaceholder(x) == Or(Get(x, "answer"), Get(x, "response"))
\* Variant: response is preferred to answer.
TextOfResponseFirst(x) ==
  Or(Or(Get(x, "response"), Get(x, "answer")), JStr(Placeholder))
\* x.answer || x.response || 'Vastausta ei saatu.'
TextOf(x) == Or(Or(Get(x, "answer"), Get(x, "response")), JStr(Placeholder))

\* Variant: textResponse is never parsed, only wrapped.
ParseTextResponseRaw(tr) ==
  JObj(Undefined, Undefined, Undefined, tr, Undefined)
\* textData of lines 117-123: JSON.parse(data.textResponse), and on a
\* SyntaxError { answer: data.textResponse }. JSON.parse converts its
\* argument to a string first.
ParseTextResponse(tr) ==
  LET p == IF tr.t \in {"string", "boolean"}
           THEN JsonParse(tr.v)
           ELSE [ok |-> FALSE, value |-> Undefined]
  IN IF p.ok THEN p.value
     ELSE JObj(Undefined, Undefined, Undefined, tr, Undefined)

\* Lines 114-156 on the decoded body data; url is the reference that
\* URL.createObjectURL would hand out next.
Normalize(data, url) ==
  IF ~CanRead(data) THEN Thrown(<<>>)
  ELSE IF /\ Truthy(Get(data, "success"))
          /\ Truthy(Get(data, "textResponse"))
          /\ Truthy(Get(data, "audioResponse"))
  THEN LET textData == ParseTextResponse(Get(data, "textResponse"))
           audio == Get(data, "audioResponse")
           textOnly == IF CanRead(textData)
                       THEN Returned(PlainResult(TextOf(textData)), <<>>)
                       ELSE Thrown(<<>>)
       IN IF audio.t = "string"
          THEN LET dec == Atob(StripDataUrlPrefix(audio.v))
               IN IF dec.ok
                  THEN IF CanRead(textData)
                       THEN Returned(JsonResult(TextOf(textData), url),
                                     <<AudioBlob(dec.chars)>>)
                       \* line 142 throws after line 137, line 147 throws again
                       ELSE Thrown(<<AudioBlob(dec.chars)>>)
                  ELSE textOnly
          ELSE textOnly
  ELSE Returned(PlainResult(TextOf(data)), <<>>)

\* ------------------------------------------------------- response bodies
\* A body is the JSON encoding of a value, text that is not JSON, or a
\* stream that fails while it is read.
JsonBody(v) == [kind |-> "json", value |-> v, text |-> EmptyStr]
TextBody(s) == [kind |-> "text", value |-> Undefined, text |-> s]
BrokenBody == [kind |-> "broken", value |-> Undefined, text |-> EmptyStr]
\* Variant: text that is not JSON is wrapped as the answer.
DecodeBodyTextAsAnswer(body) ==
  CASE body.kind = "json" -> [ok |-> TRUE, data |-> body.value]
    [] body.kind = "text" ->
         LET p == JsonParse(body.text)
         IN [ok |-> TRUE,
             data |-> IF p.ok THEN p.value
                      ELSE JObj(Undefined, Undefined, Undefined,
                                JStr(body.text), Undefined)]
    [] OTHER -> [ok |-> FALSE, data |-> Undefined]
\* Variant: a body that cannot be read decodes to an empty object.
DecodeBodyNeverThrows(body) ==
  CASE body.kind = "json" -> [ok |-> TRUE, data |-> body.value]
    [] body.kind = "text" ->
         LET p == JsonParse(body.text)
         IN [ok |-> TRUE,
             data |-> IF p.ok THEN p.value
                      ELSE JObj(Undefined, JStr(body.text), Undefined,
                                Undefined, Undefined)]
    [] OTHER -> [ok |-> TRUE, data |-> EmptyObj]
\* Lines 91-112: response.json(), else responseClone.text() and JSON.parse of
\* it, else { textResponse: textData }; a throw when the text cannot be read.
DecodeBody(body) ==
  CASE body.kind = "json" -> [ok |-> TRUE, data |-> body.value]
    [] body.kind = "text" ->
         LET p == JsonParse(body.text)
         IN [ok |-> TRUE,
             data |-> IF p.ok THEN p.value
                      ELSE JObj(Undefined, JStr(body.text), Undefined,
                                Undefined, Undefined)]
    [] OTHER -> [ok |-> FALSE, data |-> Undefined]

\* ----------------------------------------------------------------- errors
NoError == [name |-> "", message |-> "", status |-> 0]
AbortError == [name |-> "AbortError", message |-> "signal is aborted", status |-> 0]
TimeoutError == [name |-> "Error", message |-> "Request timeout", status |-> 0]
HttpError(st) == [name |-> "Error", message |-> "Palvelin vastasi virheella", status |-> st]
ParseError == [name |-> "Error", message |-> "Failed to parse response", status |-> 0]
PropertyError == [name |-> "TypeError", message |-> "Cannot read properties of null", status |-> 0]
FetchError(msg) == [name |-> "TypeError", message |-> msg, status |-> 0]
\* error.message.includes('Failed to fetch'), over the messages of the model
IncludesFailedToFetch(msg) == msg = "Failed to fetch"

ErrCancelled == "Pyynto keskeytetty"
ErrNetwork == "Verkkoyhteydessa on ongelma. Tarkista internetyhteys."
ErrServer == "Palvelinyhteys epaonnistui"
\* Variant: every TypeError counts as a network failure.
TerminalErrorByNameOnly(err) ==
  IF err.name = "AbortError" THEN ErrCancelled
  ELSE IF err.name = "TypeError" THEN ErrNetwork ELSE ErrServer
\* Lines 163-173: the error thrown when the last attempt fails with err.
TerminalError(err) ==
  IF err.name = "AbortError" THEN ErrCancelled
  ELSE IF err.name = "TypeError" /\ IncludesFailedToFetch(err.message)
       THEN ErrNetwork
       ELSE ErrServer

\* Variant: every status from 200 up counts as ok.
ResponseOkNoUpperBound(st) == st >= 200
\* response.ok
ResponseOk(st) == st >= 200 /\ st <= 299
\* Variant: the exponent is the attempt number itself.
BackoffDelayDoubled(n) == RETRY_DELAY_MS * (2 ^ n)
\* Line 56: RETRY_DELAY_MS * Math.pow(2, retries - 1)
BackoffDelay(n) == RETRY_DELAY_MS * (2 ^ (n - 1))

\* --------------------------------------------------------- upload blob
\* new Blob([parts], { type }): a type is a sequence of tokens, so that
\* type.includes('webm') is computed on it.
Blob(parts, type) == [type |-> type, size |-> Len(parts), data |-> parts]
WebmType == <<"audio/", "webm">>
Includes(s, word) == \E i \in 1..Len(s) : s[i] = word
\* The flag i of the pattern: the words of user agents in lower case.
ToLowerCase(word) ==
  CASE word = "Android" -> "android"
    [] word = "ANDROID" -> "android"
    [] word = "iPhone" -> "iphone"
    [] word = "iPad" -> "ipad"
    [] word = "Macintosh" -> "macintosh"
    [] word = "Linux" -> "linux"
    [] OTHER -> word
MobileWords ==
  {"android", "webos", "iphone", "ipad", "ipod", "blackberry", "iemobile",
   "opera mini"}
\* isMobile(), lines 8-10, on navigator.userAgent
IsMobile(ua) == \E i \in 1..Len(ua) : ToLowerCase(ua[i]) \in MobileWords
\* Variant: on mobile the blob is re-wrapped whatever its type.
ProcessBlobAlways(ua, blob) ==
  IF IsMobile(ua) THEN Blob(blob.data, WebmType) ELSE blob
\* Lines 37-42: processedBlob
ProcessBlob(ua, blob) ==
  IF IsMobile(ua) /\ ~Includes(blob.type, "webm")
  THEN Blob(blob.data, WebmType)
  ELSE blob

\* ------------------------------------------------ environment's inputs
Statuses == {200, 299, 404}
\* Message of the TypeError a failed fetch rejects with: Chromium's, WebKit's.
FetchFailureMessages == {"Failed to fetch", "Load failed"}
OkText == <<"{", Quote, "answer", Quote, ":", Quote, "ok", Quote, "}">>
OkAudio == <<"data:audio/", "mpeg", ";base64,", "A", "A", "A", "=">>
StructuredOk == JsonBody(JObj(JBool(TRUE), JStr(OkText), JStr(OkAudio), Undefined, Undefined))
LegacyHello == JsonBody(JObj(Undefined, Undefined, Undefined, JStr(<<"hello">>), Undefined))
Bodies == {StructuredOk, LegacyHello, JsonBody(JNull), TextBody(<<"plain text">>), BrokenBody}
\* navigator.userAgent: a desktop browser, two phones, a tablet that
\* presents itself as a desktop.
UserAgents ==
  {<<"Mozilla/5.0", "X11", "Linux", "Chrome">>,
   <<"Mozilla/5.0", "iPhone", "Safari">>,
   <<"Mozilla/5.0", "Linux", "ANDROID", "Chrome">>,
   <<"Mozilla/5.0", "Macintosh", "Safari">>}
\* Recordings: by type, with and without bytes.
Blobs ==
  {Blob(<<1, 2>>, WebmType), Blob(<<3>>, <<"audio/", "webm", ";codecs=opus">>),
   Blob(<<1, 2>>, <<"audio/", "mp4">>), Blob(<<4, 5, 6>>, <<>>),
   Blob(<<>>, <<"audio/", "mp4">>)}

\* ------------------------------------------------------------------ state
VARIABLES
  abortController, \* this.abortController: 0 (null) or the call that owns it
  aborted,         \* controller.signal.aborted of each call's controller
  pc,              \* where each call is suspended
  retries,         \* the local retries of each call
  lastError,       \* the local lastError of each call
  outcome,         \* settlement of the promise each call returned
  response,        \* the response whose body a call is reading
  inflight,        \* requests outstanding at the transport: [call, attempt]
  objectUrls,      \* blobs registered by URL.createObjectURL, in order
  waited,          \* history: backoff delays each call has waited, in order
  fetches,         \* history: number of fetch() calls each call has made
  lastFailure,     \* history: how the latest failed attempt of each call failed
  failures,        \* history: the one way all failed attempts of each call
                   \* failed so far, "" with none, "mixed" with several ways
  faults,          \* history: attempts the environment has let fail
  decoded,         \* history: the data each call decoded in its current attempt
  userAgent,       \* navigator.userAgent
  audioBlob,       \* the parameter audioBlob of each call
  processedBlob,   \* the local processedBlob of each call
  uploads          \* history: the blobs each call appended to its form data

\* the conversation: the state of useConversationState, the toast shown last,
\* the microphone, where each press is suspended, the call of each press,
\* the audio being played, a stop event still to come, and the history of
\* reset
VARIABLES voiceState, isWaitingForClick, isFirstInteraction, messages,
          toasts, mic, flow, callOf, playing, lateStop, resets, stale

convVars == <<voiceState, isWaitingForClick, isFirstInteraction, messages,
              toasts, mic, flow, callOf, playing, lateStop, resets, stale>>
\* the state of the WebhookService calls
serviceVars == <<abortController, aborted, pc, retries, lastError, outcome, response,
                 inflight, objectUrls, waited, fetches, lastFailure, failures,
                 faults, decoded, userAgent, audioBlob, processedBlob, uploads>>
\* the useMicrophone hook with the browser's recorders and streams, and the
\* update handling of the service worker with the browser's storage
VARIABLES hook, pwa
unitVars == <<hook, pwa>>
vars == <<serviceVars, convVars, unitVars>>
\* the user agent and the blobs of the calls
blobVars == <<userAgent, audioBlob, processedBlob, uploads>>

Pending == [state |-> "pending", result |-> NoResult, error |-> ""]
Resolved(r) == [state |-> "resolved", result |-> r, error |-> ""]
Rejected(msg) == [state |-> "rejected", result |-> NoResult, error |-> msg]
NoResponse == [status |-> 0, body |-> BrokenBody]
Request(c, n) == [call |-> c, attempt |-> n]
RequestsOf(c) == {r \in inflight : r.call = c}

NoUpload == Blob(<<>>, <<>>)
SomeUserAgents == {<<"Mozilla/5.0", "iPhone", "Safari">>}
SomeBlobs == {Blob(<<1, 2>>, <<"audio/", "mp4">>)}
\* --- the conversation flow (useConversation, useMicrophone, VoiceButton)
\* the button presses and the resets of one behaviour
Flows == 1..MaxPresses

\* translations: recordingFailed, the rejection of the 20 s guard of the
\* upload, and the message of a refused microphone
RecordingFailed == "recordingFailed"
WebhookTimeoutMessage == "Webhook timeout"
PermissionDeniedMessage == "Permission denied"

\* the voiceState of useConversationState as the hook uses it
VoiceState(status, isRecording, isPlaying, error) ==
  [status |-> status, isRecording |-> isRecording, isPlaying |-> isPlaying,
   error |-> error]
\* voiceState.error = null
NoMessage == ""
InitialVoiceState == VoiceState("idle", FALSE, FALSE, NoMessage)

\* the refs and the state of useMicrophone: mediaRecorderRef ("null", or
\* the state of the recorder it holds), streamRef ("null" or "live"),
\* chunksRef (0: no data, 1: data), isRecording; and the browser's side:
\* the recorders that record and the streams with live tracks
InitialMicrophone ==
  [mediaRecorderRef |-> "null", streamRef |-> "null", chunks |-> 0,
   isRecording |-> FALSE, activeRecorders |-> 0, liveStreams |-> 0]

\* useMicrophone.cleanup: stops the recorder and the tracks the refs hold,
\* clears the refs, keeps the chunks
MicrophoneCleanup(m) ==
  [m EXCEPT
     !.activeRecorders =
        IF m.mediaRecorderRef = "recording" THEN @ - 1 ELSE @,
     !.mediaRecorderRef = "null",
     !.liveStreams = IF m.streamRef = "live" THEN @ - 1 ELSE @,
     !.streamRef = "null",
     !.isRecording = FALSE]

\* the type of the recorder of the modelled device (recorder.mimeType)
RecorderMimeType == <<"audio/", "mp4">>
\* getAudioBlobFromChunks, and the empty audio/webm blob of stopRecording
\* when there are no chunks
GetAudioBlobFromChunks(m) ==
  IF m.chunks = 0 THEN Blob(<<>>, WebmType)
  ELSE Blob(<<1, 2>>,
            IF m.mediaRecorderRef = "null" THEN WebmType
            ELSE RecorderMimeType)

IsEmptyRecordingNever(blob) == FALSE
\* if (!audioBlob || audioBlob.size === 0)
IsEmptyRecording(blob) == blob = NoUpload \/ blob.size = 0

\* isDisabled of the hook and of the button
IsDisabled(vs, waiting) == vs.status # "idle" /\ ~waiting

\* the conversation before the first press
\* --- the useMicrophone hook on its own: its three copies in the source
\* (hooks/useMicrophone.ts, the copy in utils/translations.ts and the one of
\* unnamed/part_000), the calls of startRecording and stopRecording, the
\* recorders and the streams of the browser
\* the calls of startRecording, stopRecording and cleanup in a run, and the
\* chunks the recorders deliver in it
MaxHookCalls == 3
MaxChunks == 1
Starts == 1..MaxHookCalls
Stops == 1..MaxHookCalls
\* "hooks": hooks/useMicrophone.ts, "translations": the copy in
\* utils/translations.ts, "part_000": the copy in unnamed/part_000
Versions == {"hooks", "translations", "part_000"}
\* The promise of a stopRecording call that was not made yet.
NoStop == [state |-> "new", blob |-> NoUpload, timer |-> FALSE, rec |-> 0,
           by |-> ""]
\* The hook after its first render: the refs, the state, and around them
\* the recorder and the stream of each startRecording call (a recorder is
\* "recording", then "stopping" while its last events are still to come,
\* then "stopped"), the promise of each stopRecording call, and how many
\* calls were made and chunks delivered.
InitialHook(version) ==
  [version |-> version,
   mediaRecorderRef |-> 0,
   streamRef |-> 0,
   chunksRef |-> <<>>,
   isRecording |-> FALSE,
   calls |-> 0,
   delivered |-> 0,
   hasPermission |-> "null",
   recorders |-> [s \in Starts |-> [state |-> "none", onstop |-> 0]],
   streams |-> [s \in Starts |-> "none"],
   starts |-> [s \in Starts |-> "new"],
   stops |-> [p \in Stops |-> NoStop]]

\* --- the update handling of utils/pwa.ts: the service workers that
\* arrive in a run and the half days the clock moves on
MaxWorkers == 2
MaxTicks == 3
Workers == 1..MaxWorkers
OneDayInMs == 24 * 60 * 60 * 1000
\* What getUpdatePreferences gives when nothing is stored.
NoPreferences == [autoUpdate |-> FALSE, lastDecision |-> "null"]
\* The page before registerServiceWorker has run, in a browser that has
\* stored nothing: the two items of localStorage (lastCheck -1: no item),
\* the preferences object of the page session, the clock, the workers
\* ("none", "waiting", "applied" once SKIP_WAITING was sent, "redundant"),
\* the worker of the notification on the page (0: none), and for the
\* history the time of the last press of 'later' and the last worker that
\* handleNewServiceWorker was called with.
InitialPwa ==
  [stored |-> NoPreferences,
   lastCheck |-> -1,
   registered |-> FALSE,
   preferences |-> NoPreferences,
   now |-> 0,
   workers |-> [w \in Workers |-> "none"],
   notice |-> 0,
   declinedAt |-> -1,
   last |-> [worker |-> 0, outcome |-> "none"]]

InitUnits ==
  /\ hook = InitialHook("hooks")
  /\ pwa = InitialPwa

InitConversation ==
  /\ voiceState = InitialVoiceState
  /\ isWaitingForClick = FALSE
  /\ isFirstInteraction = TRUE
  /\ messages = {}
  /\ toasts = NoMessage
  /\ mic = InitialMicrophone
  /\ flow = [i \in Flows |-> "new"]
  /\ callOf = [i \in Flows |-> 0]
  /\ playing = {}
  /\ lateStop = FALSE
  /\ resets = 0
  /\ stale = {}


\* The instance after construction, in a browser with one of the user agents.
InitIn(agents) ==
  /\ abortController = 0
  /\ aborted = [c \in Calls |-> FALSE]
  /\ pc = [c \in Calls |-> "init"]
  /\ retries = [c \in Calls |-> 0]
  /\ lastError = [c \in Calls |-> NoError]
  /\ outcome = [c \in Calls |-> Pending]
  /\ response = [c \in Calls |-> NoResponse]
  /\ inflight = {}
  /\ objectUrls = <<>>
  /\ waited = [c \in Calls |-> <<>>]
  /\ fetches = [c \in Calls |-> 0]
  /\ lastFailure = [c \in Calls |-> ""]
  /\ failures = [c \in Calls |-> ""]
  /\ faults = 0
  /\ decoded = [c \in Calls |-> Undefined]
  /\ userAgent \in agents
  /\ audioBlob = [c \in Calls |-> NoUpload]
  /\ processedBlob = [c \in Calls |-> NoUpload]
  /\ uploads = [c \in Calls |-> <<>>]
  /\ InitConversation
Init == InitIn(SomeUserAgents) /\ InitUnits

\* Variant: the last-retry test is off by one, the loop runs once more.
CatchOneMore(c, err, how) ==
  /\ lastFailure' = [lastFailure EXCEPT ![c] = how]
  /\ failures' = [failures EXCEPT ![c] = IF @ \in {"", how} THEN how ELSE "mixed"]
  /\ IF retries[c] = MAX_RETRIES + 1
     THEN /\ outcome' = [outcome EXCEPT ![c] = Rejected(TerminalError(err))]
          /\ pc' = [pc EXCEPT ![c] = "done"]
          /\ UNCHANGED <<retries, lastError>>
     ELSE /\ lastError' = [lastError EXCEPT ![c] = err]
          /\ retries' = [retries EXCEPT ![c] = @ + 1]
          /\ pc' = [pc EXCEPT ![c] = "backoff"]
          /\ UNCHANGED outcome
\* The catch block, lines 161-181, of call c for the error err; how names the
\* way the attempt failed.
Catch(c, err, how) ==
  /\ lastFailure' = [lastFailure EXCEPT ![c] = how]
  /\ failures' = [failures EXCEPT ![c] = IF @ \in {"", how} THEN how ELSE "mixed"]
  /\ IF retries[c] = MAX_RETRIES
     THEN /\ outcome' = [outcome EXCEPT ![c] = Rejected(TerminalError(err))]
          /\ pc' = [pc EXCEPT ![c] = "done"]
          /\ UNCHANGED <<retries, lastError>>
     ELSE /\ lastError' = [lastError EXCEPT ![c] = err]
          /\ retries' = [retries EXCEPT ![c] = @ + 1]
          \* next iteration: retries > 0, the call awaits the backoff timer
          /\ pc' = [pc EXCEPT ![c] = "backoff"]
          /\ UNCHANGED outcome

\* Variant: the stored controller is replaced without being aborted.
SendWithoutAbort(c, blob) ==
  /\ pc[c] = "init"
  /\ audioBlob' = [audioBlob EXCEPT ![c] = blob]
  /\ processedBlob' = [processedBlob EXCEPT ![c] = ProcessBlob(userAgent, blob)]
  /\ uploads' = [uploads EXCEPT ![c] = <<ProcessBlob(userAgent, blob)>>]
  /\ UNCHANGED <<decoded, userAgent>>
  /\ IF c = 1 THEN TRUE ELSE pc[c - 1] # "init"
  /\ abortController' = c
  /\ inflight' = inflight \cup {Request(c, 0)}
  /\ pc' = [pc EXCEPT ![c] = "fetch"]
  /\ fetches' = [fetches EXCEPT ![c] = 1]
  /\ UNCHANGED <<aborted, retries, lastError, outcome, response, objectUrls,
                 waited, lastFailure, failures, faults>>
\* Variant: the loop does not await the race, the request of the second
\* attempt is issued together with the first.
SendTwoRequests(c, blob) ==
  /\ pc[c] = "init"
  /\ audioBlob' = [audioBlob EXCEPT ![c] = blob]
  /\ processedBlob' = [processedBlob EXCEPT ![c] = ProcessBlob(userAgent, blob)]
  /\ uploads' = [uploads EXCEPT ![c] = <<ProcessBlob(userAgent, blob), ProcessBlob(userAgent, blob)>>]
  /\ UNCHANGED <<decoded, userAgent>>
  /\ IF c = 1 THEN TRUE ELSE pc[c - 1] # "init"
  /\ aborted' = IF abortController # 0
                THEN [aborted EXCEPT ![abortController] = TRUE]
                ELSE aborted
  /\ abortController' = c
  /\ inflight' = (inflight \ RequestsOf(abortController))
                   \cup {Request(c, 0), Request(c, 1)}
  /\ pc' = [pc EXCEPT ![c] = "fetch"]
  /\ fetches' = [fetches EXCEPT ![c] = 2]
  /\ UNCHANGED <<retries, lastError, outcome, response, objectUrls, waited,
                 lastFailure, failures, faults>>
\* sendAudioToWebhook, lines 24-79 up to its first await: abort the stored
\* controller, store a fresh one, enter the loop with retries = 0 and fetch.
Send(c, blob) ==
  /\ pc[c] = "init"
  /\ audioBlob' = [audioBlob EXCEPT ![c] = blob]
  /\ processedBlob' = [processedBlob EXCEPT ![c] = ProcessBlob(userAgent, blob)]
  /\ uploads' = [uploads EXCEPT ![c] = <<ProcessBlob(userAgent, blob)>>]
  /\ UNCHANGED <<decoded, userAgent>>
  /\ IF c = 1 THEN TRUE ELSE pc[c - 1] # "init"
  /\ aborted' = IF abortController # 0
                THEN [aborted EXCEPT ![abortController] = TRUE]
                ELSE aborted
  /\ abortController' = c
  /\ inflight' = (inflight \ RequestsOf(abortController)) \cup {Request(c, 0)}
  /\ pc' = [pc EXCEPT ![c] = "fetch"]
  /\ fetches' = [fetches EXCEPT ![c] = 1]
  /\ UNCHANGED <<retries, lastError, outcome, response, objectUrls, waited,
                 lastFailure, failures, faults>>

\* Variant: the attempt takes the signal of the controller the instance
\* holds, not of the controller of its own call.
BackoffElapsedStoredSignal(c) ==
  /\ pc[c] = "backoff"
  /\ uploads' = [uploads EXCEPT ![c] = Append(@, processedBlob[c])]
  /\ decoded' = [decoded EXCEPT ![c] = Undefined]
  /\ UNCHANGED <<userAgent, audioBlob, processedBlob>>
  /\ waited' = [waited EXCEPT ![c] = Append(@, BackoffDelay(retries[c]))]
  /\ fetches' = [fetches EXCEPT ![c] = @ + 1]
  /\ IF abortController = 0 \/ aborted[IF abortController = 0 THEN c ELSE abortController]
     THEN /\ Catch(c, AbortError, "abort")
          /\ UNCHANGED inflight
     ELSE /\ inflight' = inflight \cup {Request(c, retries[c])}
          /\ pc' = [pc EXCEPT ![c] = "fetch"]
          /\ UNCHANGED <<retries, lastError, outcome, lastFailure, failures>>
  /\ UNCHANGED <<abortController, aborted, response, objectUrls, faults>>
\* Line 56 resolves: the backoff timer of call c fires; lines 59-79 issue the
\* next fetch. With an aborted signal fetch rejects at once.
BackoffElapsed(c) ==
  /\ pc[c] = "backoff"
  /\ uploads' = [uploads EXCEPT ![c] = Append(@, processedBlob[c])]
  /\ decoded' = [decoded EXCEPT ![c] = Undefined]
  /\ UNCHANGED <<userAgent, audioBlob, processedBlob>>
  /\ waited' = [waited EXCEPT ![c] = Append(@, BackoffDelay(retries[c]))]
  /\ fetches' = [fetches EXCEPT ![c] = @ + 1]
  /\ IF aborted[c]
     THEN /\ Catch(c, AbortError, "abort")
          /\ UNCHANGED inflight
     ELSE /\ inflight' = inflight \cup {Request(c, retries[c])}
          /\ pc' = [pc EXCEPT ![c] = "fetch"]
          /\ UNCHANGED <<retries, lastError, outcome, lastFailure, failures>>
  /\ UNCHANGED <<abortController, aborted, response, objectUrls, faults>>

\* The fetch of the current attempt rejects because its signal was aborted.
FetchAborted(c) ==
  /\ pc[c] = "fetch"
  /\ UNCHANGED <<decoded, blobVars>>
  /\ aborted[c]
  /\ Catch(c, AbortError, "abort")
  /\ UNCHANGED <<abortController, aborted, response, inflight, objectUrls,
                 waited, fetches, faults>>

\* The fetch of the current attempt rejects with a TypeError (no connection,
\* DNS, CORS).
FetchFails(c, msg) ==
  /\ pc[c] = "fetch"
  /\ UNCHANGED <<decoded, blobVars>>
  /\ ~aborted[c]
  /\ faults < MaxFaults
  /\ faults' = faults + 1
  /\ inflight' = inflight \ {Request(c, retries[c])}
  /\ Catch(c, FetchError(msg), "network")
  /\ UNCHANGED <<abortController, aborted, response, objectUrls, waited,
                 fetches>>

\* Line 64: the timer of the current attempt fires before its fetch settled.
\* The request is not cancelled: it stays outstanding.
Timeout(c) ==
  /\ pc[c] = "fetch"
  /\ UNCHANGED <<decoded, blobVars>>
  /\ ~aborted[c]
  /\ faults < MaxFaults
  /\ faults' = faults + 1
  /\ Catch(c, TimeoutError, "timeout")
  /\ UNCHANGED <<abortController, aborted, response, inflight, objectUrls,
                 waited, fetches>>

\* Lines 79-89: the fetch of the current attempt resolves with a response.
FetchResponds(c, st, body) ==
  /\ pc[c] = "fetch"
  /\ UNCHANGED <<decoded, blobVars>>
  /\ ~aborted[c]
  /\ IF ResponseOk(st)
     THEN /\ response' = [response EXCEPT ![c] = [status |-> st, body |-> body]]
          /\ pc' = [pc EXCEPT ![c] = "body"]
          /\ UNCHANGED <<retries, lastError, outcome, lastFailure, failures,
                         inflight, faults>>
     ELSE /\ faults < MaxFaults
          /\ faults' = faults + 1
          /\ inflight' = inflight \ {Request(c, retries[c])}
          /\ Catch(c, HttpError(st), "status")
          /\ UNCHANGED response
  /\ UNCHANGED <<abortController, aborted, objectUrls, waited, fetches>>

\* Lines 91-156: the body of the response has been read; decode, normalize,
\* return or throw.
BodyRead(c) ==
  /\ pc[c] = "body"
  /\ ~aborted[c]
  /\ inflight' = inflight \ {Request(c, retries[c])}
  /\ LET dec == DecodeBody(response[c].body)
         norm == Normalize(dec.data, Len(objectUrls) + 1)
     IN IF ~dec.ok
        THEN /\ faults < MaxFaults
             /\ faults' = faults + 1
             /\ Catch(c, ParseError, "decode")
             /\ UNCHANGED objectUrls
        ELSE /\ objectUrls' = objectUrls \o norm.created
             /\ IF norm.kind = "return"
                THEN /\ outcome' = [outcome EXCEPT ![c] = Resolved(norm.result)]
                     /\ pc' = [pc EXCEPT ![c] = "done"]
                     /\ UNCHANGED <<retries, lastError, lastFailure,
                                    failures, faults>>
                ELSE /\ faults < MaxFaults
                     /\ faults' = faults + 1
                     /\ Catch(c, PropertyError, "decode")
  /\ response' = [response EXCEPT ![c] = NoResponse]
  /\ decoded' = [decoded EXCEPT ![c] =
                   LET dec == DecodeBody(response[c].body)
                   IN IF dec.ok THEN dec.data ELSE Undefined]
  /\ UNCHANGED blobVars
  /\ UNCHANGED <<abortController, aborted, waited, fetches>>

\* The signal is aborted while the body is read: response.json() rejects,
\* responseClone.text() rejects as well, line 110 throws a plain Error.
BodyAborted(c) ==
  /\ pc[c] = "body"
  /\ UNCHANGED <<decoded, blobVars>>
  /\ aborted[c]
  /\ Catch(c, ParseError, "abort")
  /\ response' = [response EXCEPT ![c] = NoResponse]
  /\ UNCHANGED <<abortController, aborted, inflight, objectUrls, waited,
                 fetches, faults>>

\* Variant: the late settlement of an abandoned request is taken for a
\* failure of the attempt in progress.
AbandonedSettlesCounts(r) ==
  /\ r \in inflight
  /\ UNCHANGED <<decoded, blobVars>>
  /\ IF pc[r.call] = "done" THEN TRUE ELSE r.attempt < retries[r.call]
  /\ inflight' = inflight \ {r}
  /\ retries' = [retries EXCEPT ![r.call] = IF @ < MAX_RETRIES THEN @ + 1 ELSE @]
  /\ UNCHANGED <<abortController, aborted, pc, lastError, outcome, response,
                 objectUrls, waited, fetches, lastFailure, failures, faults>>
\* A request that its call no longer awaits (abandoned by a timeout) settles
\* at the transport; nothing is listening.
AbandonedSettles(r) ==
  /\ r \in inflight
  /\ UNCHANGED <<decoded, blobVars>>
  /\ IF pc[r.call] = "done" THEN TRUE ELSE r.attempt < retries[r.call]
  /\ inflight' = inflight \ {r}
  /\ UNCHANGED <<abortController, aborted, pc, retries, lastError, outcome,
                 response, objectUrls, waited, fetches, lastFailure, failures,
                 faults>>

\* cleanup(), lines 193-198.
Cleanup ==
  /\ IF abortController # 0
     THEN /\ aborted' = [aborted EXCEPT ![abortController] = TRUE]
          /\ inflight' = inflight \ RequestsOf(abortController)
          /\ abortController' = 0
     ELSE UNCHANGED <<abortController, aborted, inflight>>
  /\ UNCHANGED <<decoded, blobVars>>
  /\ UNCHANGED <<pc, retries, lastError, outcome, response, objectUrls,
                 waited, fetches, lastFailure, failures, faults>>

\* One instance and its calls. The replies come from a small repertoire: one
\* ok and one error status, one body, one fetch failure.
SomeStatuses == {200, 404}
SomeBodies == {StructuredOk}
SomeFailureMessages == {"Failed to fetch"}
Next ==
  \/ \E c \in Calls, blob \in SomeBlobs : Send(c, blob)
       /\ UNCHANGED <<convVars, unitVars>>
  \/ \E c \in Calls : BackoffElapsed(c)
       /\ UNCHANGED <<convVars, unitVars>>
  \/ \E c \in Calls : FetchAborted(c)
       /\ UNCHANGED <<convVars, unitVars>>
  \/ \E c \in Calls, msg \in SomeFailureMessages : FetchFails(c, msg)
       /\ UNCHANGED <<convVars, unitVars>>
  \/ \E c \in Calls : Timeout(c)
       /\ UNCHANGED <<convVars, unitVars>>
  \/ \E c \in Calls, st \in SomeStatuses, body \in SomeBodies :
       FetchResponds(c, st, body)
       /\ UNCHANGED <<convVars, unitVars>>
  \/ \E c \in Calls : BodyRead(c)
       /\ UNCHANGED <<convVars, unitVars>>
  \/ \E c \in Calls : BodyAborted(c)
       /\ UNCHANGED <<convVars, unitVars>>
  \/ \E r \in inflight : AbandonedSettles(r)
       /\ UNCHANGED <<convVars, unitVars>>
  \/ Cleanup
       /\ UNCHANGED <<convVars, unitVars>>

Spec == Init /\ [][Next]_vars

\* A single call on the instance, against every reply of the repertoire.
NextCall ==
  \/ \E blob \in SomeBlobs : Send(1, blob)
       /\ UNCHANGED <<convVars, unitVars>>
  \/ BackoffElapsed(1)
       /\ UNCHANGED <<convVars, unitVars>>
  \/ FetchAborted(1)
       /\ UNCHANGED <<convVars, unitVars>>
  \/ \E msg \in FetchFailureMessages : FetchFails(1, msg)
       /\ UNCHANGED <<convVars, unitVars>>
  \/ Timeout(1)
       /\ UNCHANGED <<convVars, unitVars>>
  \/ \E st \in Statuses, body \in Bodies : FetchResponds(1, st, body)
       /\ UNCHANGED <<convVars, unitVars>>
  \/ BodyRead(1)
       /\ UNCHANGED <<convVars, unitVars>>
  \/ BodyAborted(1)
       /\ UNCHANGED <<convVars, unitVars>>
  \/ \E r \in inflight : AbandonedSettles(r)
       /\ UNCHANGED <<convVars, unitVars>>
  \/ Cleanup
       /\ UNCHANGED <<convVars, unitVars>>

SpecCall == Init /\ [][NextCall]_vars

\* A single call against the reply shapes of the decoder: the structured
\* replies, the legacy replies, null, a JSON string, text that is not JSON and
\* an unreadable body. Attempts fail by an error status or in the decoder.
EmptyAnswerText ==
  <<"{", Quote, "answer", Quote, ":", Quote, Quote, ",",
    Quote, "response", Quote, ":", Quote, "other", Quote, "}">>
TextResponseValues ==
  {JStr(OkText), JStr(EmptyAnswerText), JStr(<<"{", "}">>), JStr(<<"null">>),
   JStr(<<"just text">>), Undefined}
AudioResponseValues ==
  {JStr(OkAudio), JStr(<<"A", "A", "A", "A">>), JStr(<<"A", "A", "=", "=">>),
   JStr(<<"data:audio/", "mpeg", ";base64,">>),
   JStr(<<"data:audio/", "mpeg", ";codecs=mp3", ";base64,", "A", "A", "A", "A">>),
   JStr(<<"A", "*", "A", "A">>), JStr(<<"A">>), JStr(EmptyStr), JBool(TRUE),
   Undefined}
AnswerValues == {JStr(<<"hello">>), JStr(EmptyStr), Undefined}
ResponseValues == {JStr(<<"resp">>), Undefined}
StructuredReplies ==
  {JsonBody(JObj(JBool(TRUE), tr, au, an, Undefined)) :
     tr \in TextResponseValues, au \in AudioResponseValues,
     an \in {JStr(<<"hello">>), Undefined}}
LegacyReplies ==
  {JsonBody(JObj(su, tr, au, an, re)) :
     su \in {Undefined, JBool(FALSE)}, tr \in {JStr(OkText), Undefined},
     au \in {JStr(OkAudio), Undefined}, an \in AnswerValues,
     re \in ResponseValues}
Replies ==
  StructuredReplies \cup LegacyReplies
    \cup {JsonBody(JNull), JsonBody(JStr(<<"hello">>)),
          TextBody(<<"plain text">>), TextBody(EmptyStr), BrokenBody}
NextReplies ==
  \/ \E blob \in SomeBlobs : Send(1, blob)
       /\ UNCHANGED <<convVars, unitVars>>
  \/ BackoffElapsed(1)
       /\ UNCHANGED <<convVars, unitVars>>
  \/ \E st \in SomeStatuses, body \in Replies : FetchResponds(1, st, body)
       /\ UNCHANGED <<convVars, unitVars>>
  \/ BodyRead(1)
       /\ UNCHANGED <<convVars, unitVars>>

SpecReplies == Init /\ [][NextReplies]_vars
\* A single call with every recording, in every browser.
InitUpload == InitIn(UserAgents) /\ InitUnits
NextUpload ==
  \/ \E blob \in Blobs : Send(1, blob)
       /\ UNCHANGED <<convVars, unitVars>>
  \/ BackoffElapsed(1)
       /\ UNCHANGED <<convVars, unitVars>>
  \/ FetchAborted(1)
       /\ UNCHANGED <<convVars, unitVars>>
  \/ Timeout(1)
       /\ UNCHANGED <<convVars, unitVars>>
  \/ \E st \in SomeStatuses, body \in SomeBodies : FetchResponds(1, st, body)
       /\ UNCHANGED <<convVars, unitVars>>
  \/ BodyRead(1)
       /\ UNCHANGED <<convVars, unitVars>>
  \/ BodyAborted(1)
       /\ UNCHANGED <<convVars, unitVars>>
  \/ \E r \in inflight : AbandonedSettles(r)
       /\ UNCHANGED <<convVars, unitVars>>
  \/ Cleanup
       /\ UNCHANGED <<convVars, unitVars>>

SpecUpload == InitUpload /\ [][NextUpload]_vars

\* A single call whose timers fire and whose rejections are delivered, while
\* the server is free never to answer: the backoff timer (line 56) and the
\* timeout timer (line 64) fire, and an aborted fetch or body read rejects;
\* nothing obliges a response or the end of its body to arrive.
SpecCallTimers ==
  /\ Init /\ [][NextCall]_vars
  /\ WF_vars(BackoffElapsed(1) /\ UNCHANGED <<convVars, unitVars>>)
  /\ WF_vars(Timeout(1) /\ UNCHANGED <<convVars, unitVars>>)
  /\ WF_vars(FetchAborted(1) /\ UNCHANGED <<convVars, unitVars>>)
  /\ WF_vars(BodyAborted(1) /\ UNCHANGED <<convVars, unitVars>>)


\* --------------------------------------------- the conversation flow
\* the catch of stopRecordingAndSend: microphone.cleanup, idle with the
\* error's message, the destructive toast and the error message
FlowFails(i, m, message, added) ==
  /\ mic' = MicrophoneCleanup(m)
  /\ voiceState' = VoiceState("idle", FALSE, FALSE, message)
  /\ toasts' = message
  /\ messages' = messages \cup added \cup {"error"}
  /\ flow' = [flow EXCEPT ![i] = "done"]
  /\ UNCHANGED <<callOf, playing, serviceVars>>

\* the recording is there: the user message, status waiting and the call
\* of sendAudioToWebhook on the WebhookService of the handler's render
BeginUpload(i, m, blob, added) ==
  \E c \in Calls :
    /\ \A d \in Calls : d < c <=> pc[d] # "init"
    /\ Send(c, blob)
    /\ mic' = m
    /\ voiceState' = [voiceState EXCEPT !.status = "waiting",
                                        !.isRecording = FALSE]
    /\ messages' = messages \cup added \cup {"user", "system"}
    /\ flow' = [flow EXCEPT ![i] = "uploading"]
    /\ callOf' = [callOf EXCEPT ![i] = c]
    /\ UNCHANGED <<toasts, playing>>

\* the recording promise settled with the blob of the chunks; m is the
\* microphone after the handler that settled it
RecordingSettled(i, audio, m, added) ==
  IF IsEmptyRecording(audio)
  THEN FlowFails(i, m, RecordingFailed, added)
  ELSE BeginUpload(i, m, audio, added)

\* handleVoiceInteraction from "Start recording" to the await of
\* getUserMedia in startRecording (cleanup, chunks = [])
StartRecording(i, added) ==
  /\ voiceState' = [voiceState EXCEPT !.status = "recording",
                                      !.isRecording = TRUE]
  /\ isWaitingForClick' = TRUE
  /\ messages' = messages \cup added \cup {"system"}
  /\ mic' = [MicrophoneCleanup(mic) EXCEPT !.chunks = 0]
  /\ flow' = [flow EXCEPT ![i] = "starting"]
  /\ UNCHANGED <<toasts, callOf, playing, serviceVars>>

\* a press of the voice button: handleVoiceInteraction up to its first await
Press(i) ==
  /\ flow[i] = "new"
  /\ \A j \in Flows : j < i => flow[j] # "new"
  /\ ~IsDisabled(voiceState, isWaitingForClick)
  /\ abortController = 0
  /\ UNCHANGED <<isFirstInteraction, lateStop, resets, stale>>
  /\ IF voiceState.status = "recording" \/ mic.isRecording
     THEN \* stopRecordingAndSend
       /\ isWaitingForClick' = FALSE
       /\ IF mic.mediaRecorderRef = "recording"
          THEN \* the handlers are set and the recorder is stopped
            /\ mic' = [mic EXCEPT !.mediaRecorderRef = "inactive",
                                  !.activeRecorders = @ - 1]
            /\ voiceState' = [voiceState EXCEPT !.status = "sending",
                                                !.isRecording = FALSE]
            /\ messages' = messages \cup {"system"}
            /\ flow' = [flow EXCEPT ![i] = "stopping"]
            /\ UNCHANGED <<toasts, callOf, playing, serviceVars>>
          ELSE \* no recorder to stop: the promise is resolved at once
            RecordingSettled(i, GetAudioBlobFromChunks(mic),
                             [mic EXCEPT !.isRecording = FALSE], {"system"})
     ELSE IF isFirstInteraction
     THEN
       /\ voiceState' = [voiceState EXCEPT !.status = "greeting"]
       /\ messages' = messages \cup {"system"}
       /\ flow' = [flow EXCEPT ![i] = "greeting"]
       /\ UNCHANGED <<isWaitingForClick, toasts, mic, callOf, playing,
                      serviceVars>>
     ELSE StartRecording(i, {})

\* playGreeting settled (a failure is swallowed)
GreetingEnds(i) ==
  /\ flow[i] = "greeting"
  /\ isFirstInteraction' = FALSE
  /\ StartRecording(i, {"system"})
  /\ UNCHANGED <<lateStop, resets, stale>>

\* getUserMedia resolved: the stream and a recording MediaRecorder
PermissionGranted(i) ==
  /\ flow[i] = "starting"
  /\ mic' = [mic EXCEPT !.streamRef = "live",
                        !.liveStreams = @ + 1,
                        !.mediaRecorderRef = "recording",
                        !.activeRecorders = @ + 1,
                        !.isRecording = TRUE]
  /\ messages' = messages \cup {"system"}
  /\ flow' = [flow EXCEPT ![i] = "done"]
  /\ UNCHANGED <<voiceState, isWaitingForClick, isFirstInteraction, toasts,
                 callOf, playing, lateStop, resets, stale, serviceVars>>

\* getUserMedia rejected: the catch of handleVoiceInteraction
PermissionDenied(i) ==
  /\ flow[i] = "starting"
  /\ isWaitingForClick' = FALSE
  /\ FlowFails(i, mic, PermissionDeniedMessage, {})
  /\ UNCHANGED <<isFirstInteraction, lateStop, resets, stale>>

\* ondataavailable with data
DataAvailable ==
  /\ mic.activeRecorders > 0 \/ \E i \in Flows : flow[i] = "stopping"
  /\ mic.chunks = 0
  /\ mic' = [mic EXCEPT !.chunks = 1]
  /\ UNCHANGED <<voiceState, isWaitingForClick, isFirstInteraction,
                 messages, toasts, flow, callOf, playing, lateStop, resets,
                 stale, serviceVars>>

\* onstop (onerror does the same): the blob, cleanup, resolve
RecorderStops(i) ==
  /\ flow[i] = "stopping"
  /\ abortController = 0
  /\ RecordingSettled(i, GetAudioBlobFromChunks(mic), MicrophoneCleanup(mic), {})
  /\ UNCHANGED <<isWaitingForClick, isFirstInteraction, lateStop, resets,
                 stale>>

\* the 1.5 s safety timeout of stopRecording: the same, the stop event
\* is still to come
StopTimeout(i) ==
  /\ flow[i] = "stopping"
  /\ abortController = 0
  /\ RecordingSettled(i, GetAudioBlobFromChunks(mic), MicrophoneCleanup(mic), {})
  /\ lateStop' = TRUE
  /\ UNCHANGED <<isWaitingForClick, isFirstInteraction, resets, stale>>

\* the stop event after the safety timeout: onstop runs cleanup once more
LateStop ==
  /\ lateStop
  /\ lateStop' = FALSE
  /\ mic' = MicrophoneCleanup(mic)
  /\ UNCHANGED <<voiceState, isWaitingForClick, isFirstInteraction,
                 messages, toasts, flow, callOf, playing, resets, stale,
                 serviceVars>>

\* the reply of the service: JSON.parse(responseData), the assistant
\* message, and playAudio when it carries an audio URL
WebhookReplied(i) ==
  /\ flow[i] = "uploading"
  /\ outcome[callOf[i]].state = "resolved"
  /\ LET r == outcome[callOf[i]].result IN
     IF r.json /\ r.audioUrl # 0
     THEN
       /\ voiceState' = [voiceState EXCEPT !.status = "playing",
                                           !.isPlaying = TRUE]
       /\ playing' = playing \cup {i}
       /\ flow' = [flow EXCEPT ![i] = "playing"]
       /\ messages' = messages \cup {"system", "assistant"}
     ELSE
       /\ voiceState' = VoiceState("idle", FALSE, FALSE, NoMessage)
       /\ flow' = [flow EXCEPT ![i] = "done"]
       /\ messages' = messages \cup {"system", "assistant"}
       /\ UNCHANGED playing
  /\ UNCHANGED <<isWaitingForClick, isFirstInteraction, toasts, mic, callOf,
                 lateStop, resets, stale, serviceVars>>

\* the rejection of the service
WebhookRejected(i) ==
  /\ flow[i] = "uploading"
  /\ outcome[callOf[i]].state = "rejected"
  /\ FlowFails(i, mic, outcome[callOf[i]].error, {})
  /\ UNCHANGED <<isWaitingForClick, isFirstInteraction, lateStop, resets,
                 stale>>

\* Variant: the flow awaits the promise of the service alone.
WebhookNeverTimesOut(i) == FALSE /\ UNCHANGED vars
\* the 20 s guard of the upload
WebhookTimeout(i) ==
  /\ flow[i] = "uploading"
  /\ outcome[callOf[i]] = Pending
  /\ FlowFails(i, mic, WebhookTimeoutMessage, {})
  /\ UNCHANGED <<isWaitingForClick, isFirstInteraction, lateStop, resets,
                 stale>>

\* playAudio resolved
PlayAudioEnds(i) ==
  /\ flow[i] = "playing"
  /\ voiceState' = VoiceState("idle", FALSE, FALSE, NoMessage)
  /\ messages' = messages \cup {"system"}
  /\ playing' = playing \ {i}
  /\ flow' = [flow EXCEPT ![i] = "done"]
  /\ UNCHANGED <<isWaitingForClick, isFirstInteraction, toasts, mic, callOf,
                 lateStop, resets, stale, serviceVars>>

\* playAudio rejected: the inner catch takes it for a reply that is not
\* JSON and shows the whole responseData as the assistant's message
PlayAudioFails(i) ==
  /\ flow[i] = "playing"
  /\ voiceState' = VoiceState("idle", FALSE, FALSE, NoMessage)
  /\ messages' = messages \cup {"assistant: responseData", "system"}
  /\ playing' = playing \ {i}
  /\ flow' = [flow EXCEPT ![i] = "done"]
  /\ UNCHANGED <<isWaitingForClick, isFirstInteraction, toasts, mic, callOf,
                 lateStop, resets, stale, serviceVars>>

\* reset: microphone.cleanup, stopAudio, cleanup of the WebhookService of
\* the render reset was made in, state.reset, messageManager.reset
Reset ==
  /\ resets < MaxResets
  /\ abortController = 0
  /\ Cleanup
  /\ resets' = resets + 1
  /\ stale' = stale \cup {i \in Flows : flow[i] \notin {"new", "done"}}
  /\ mic' = MicrophoneCleanup(mic)
  /\ playing' = {}
  /\ voiceState' = InitialVoiceState
  /\ isWaitingForClick' = FALSE
  /\ isFirstInteraction' = TRUE
  /\ messages' = {}
  /\ UNCHANGED <<toasts, flow, callOf, lateStop>>

\* a render: const webhookService = new WebhookService(), the instance of
\* the handlers made in this render
Render ==
  /\ abortController # 0
  /\ abortController' = 0
  /\ UNCHANGED <<aborted, pc, retries, lastError, outcome, response,
                 inflight, objectUrls, waited, fetches, lastFailure,
                 failures, faults, decoded, userAgent, audioBlob,
                 processedBlob, uploads, convVars>>

\* What the promise of sendAudioToWebhook can settle with: a text result, a
\* result with an audio URL, or one of its three errors.
ServiceOutcomes ==
  {Resolved(PlainResult(JStr(<<"hello">>))),
   Resolved(JsonResult(JStr(<<"ok">>), 1)),
   Rejected(ErrCancelled), Rejected(ErrNetwork), Rejected(ErrServer)}
\* The call settles, seen from its caller.
SendAudioToWebhookSettles(c, o) ==
  /\ pc[c] \notin {"init", "done"}
  /\ outcome' = [outcome EXCEPT ![c] = o]
  /\ pc' = [pc EXCEPT ![c] = "done"]
  /\ inflight' = inflight \ RequestsOf(c)
  /\ UNCHANGED <<abortController, aborted, retries, lastError, response,
                 objectUrls, waited, fetches, lastFailure, failures, faults,
                 decoded, blobVars>>

\* The steps of the hooks and of the browser around them.
FlowSteps(F) ==
  \/ \E i \in F : Press(i) /\ UNCHANGED unitVars
  \/ \E i \in F : GreetingEnds(i) /\ UNCHANGED unitVars
  \/ \E i \in F : PermissionGranted(i) /\ UNCHANGED unitVars
  \/ \E i \in F : PermissionDenied(i) /\ UNCHANGED unitVars
  \/ DataAvailable /\ UNCHANGED unitVars
  \/ \E i \in F : RecorderStops(i) /\ UNCHANGED unitVars
  \/ \E i \in F : StopTimeout(i) /\ UNCHANGED unitVars
  \/ LateStop /\ UNCHANGED unitVars
  \/ \E i \in F : WebhookReplied(i) /\ UNCHANGED unitVars
  \/ \E i \in F : WebhookRejected(i) /\ UNCHANGED unitVars
  \/ \E i \in F : PlayAudioEnds(i) /\ UNCHANGED unitVars
  \/ \E i \in F : PlayAudioFails(i) /\ UNCHANGED unitVars
  \/ Reset /\ UNCHANGED unitVars
  \/ Render /\ UNCHANGED unitVars

\* The flow against a service that is known by its outcomes only.
NextFlow ==
  \/ FlowSteps(Flows)
  \/ \E i \in Flows : WebhookTimeout(i) /\ UNCHANGED unitVars
  \/ \E c \in Calls, o \in ServiceOutcomes :
       SendAudioToWebhookSettles(c, o) /\ UNCHANGED <<convVars, unitVars>>

SpecFlow == Init /\ [][NextFlow]_vars

\* What goes on without the user and the server: a timer runs out (the
\* 1.5 s safety timeout of stopRecording, the 20 s guard of the upload), a
\* settled promise is taken by the flow that awaits it, a render that is
\* due is made, the audio player ends what it plays.
FlowProgress ==
  \/ Render /\ UNCHANGED unitVars
  \/ \E i \in Flows : StopTimeout(i) /\ UNCHANGED unitVars
  \/ \E i \in Flows : WebhookTimeout(i) /\ UNCHANGED unitVars
  \/ \E i \in Flows : WebhookReplied(i) /\ UNCHANGED unitVars
  \/ \E i \in Flows : WebhookRejected(i) /\ UNCHANGED unitVars
  \/ \E i \in Flows : PlayAudioEnds(i) /\ UNCHANGED unitVars
SpecFlowFair == SpecFlow /\ WF_vars(FlowProgress)

\* The press whose flow awaits call c.
Awaited(c) == \E i \in Flows : flow[i] = "uploading" /\ callOf[i] = c
\* The timers of the first attempt (20 s, set in sendAudioToWebhook) and of
\* the flow's guard (20 s, set after the call returned its promise) run out
\* in this order; every later timeout of the call comes after both.
NextConversation ==
  \/ FlowSteps(Flows)
  \/ \E i \in Flows :
       /\ flow[i] = "uploading"
       /\ ~(pc[callOf[i]] = "fetch" /\ retries[callOf[i]] = 0)
       /\ WebhookTimeout(i) /\ UNCHANGED unitVars
  \/ \E c \in Calls : BackoffElapsed(c) /\ UNCHANGED <<convVars, unitVars>>
  \/ \E c \in Calls :
       /\ retries[c] = 0 \/ ~Awaited(c)
       /\ Timeout(c) /\ UNCHANGED <<convVars, unitVars>>
  \/ \E c \in Calls, st \in SomeStatuses, body \in SomeBodies :
       FetchResponds(c, st, body) /\ UNCHANGED <<convVars, unitVars>>
  \/ \E c \in Calls : BodyRead(c) /\ UNCHANGED <<convVars, unitVars>>
  \/ \E r \in inflight : AbandonedSettles(r) /\ UNCHANGED <<convVars, unitVars>>

SpecConversation == Init /\ [][NextConversation]_vars

\* ================================================================= claims
Settled(c) == outcome[c].state # "pending"
Started(c) == pc[c] # "init"
\* A later call has been made on the instance.
Superseded(c) == c + 1 \in Calls /\ Started(c + 1)
\* The request is outstanding but its call does not await it any more.
Abandoned(r) == pc[r.call] = "done" \/ r.attempt < retries[r.call]
Schedule == <<1000, 2000, 4000>>
IsPrefix(s, t) == Len(s) <= Len(t) /\ s = SubSeq(t, 1, Len(s))

\* C1 (as stated): a call that is still unsettled when a later call is made
\* on the instance settles only by rejecting with the cancelled error.
C1_SupersededRejectsCancelled ==
  [][\A c \in Calls :
       (Superseded(c) /\ ~Settled(c) /\ outcome'[c].state # "pending")
         => outcome'[c] = Rejected(ErrCancelled)]_vars

\* C2 (as stated): once the signal of an unsettled call is triggered during
\* an attempt before the last, the call waits no further backoff delay and
\* starts no further attempt, and settles only as the cancelled rejection.
C2_AbortIsNotRetried ==
  [][\A c \in Calls :
       (aborted[c] /\ Started(c) /\ ~Settled(c) /\ retries[c] < MAX_RETRIES)
         => /\ outcome'[c] \in {outcome[c], Rejected(ErrCancelled)}
            /\ waited'[c] = waited[c]
            /\ fetches'[c] = fetches[c]
            /\ retries'[c] = retries[c]]_vars

\* C3: a call makes at most MAX_RETRIES + 1 = 4 fetches; a call that rejects
\* has made exactly 4; a call that resolves made its last fetch in the
\* attempt that produced the result (one fetch per failed attempt plus one,
\* one backoff per failed attempt) and makes none afterwards.
C3_AtMostFourFetches ==
  \A c \in Calls :
    /\ fetches[c] <= MAX_RETRIES + 1
    /\ MAX_RETRIES + 1 = 4
    /\ outcome[c].state = "rejected" => fetches[c] = 4 /\ retries[c] = MAX_RETRIES
    /\ outcome[c].state = "resolved" =>
         fetches[c] = retries[c] + 1 /\ Len(waited[c]) = retries[c]
C3_Witness ==
  \E c \in Calls : outcome[c].state = "rejected" /\ fetches[c] = 4

\* C4: the delays a call has waited are a prefix of 1000, 2000, 4000 ms;
\* attempt 0 is fetched with no delay waited, attempt n after exactly n
\* delays, and only after n attempts have failed.
C4_BackoffSchedule ==
  \A c \in Calls :
    /\ IsPrefix(waited[c], Schedule)
    /\ \A n \in 1..Len(waited[c]) : waited[c][n] = RETRY_DELAY_MS * (2 ^ (n - 1))
    /\ Started(c) => fetches[c] = Len(waited[c]) + 1
    /\ pc[c] \in {"fetch", "body"} => Len(waited[c]) = retries[c]
    /\ Len(waited[c]) <= retries[c]
C4_Witness ==
  \E c \in Calls : waited[c] = Schedule /\ pc[c] = "fetch"

\* C5 (as stated): a response whose status lies outside [200,299), i.e.
\* below 200 or from 299 up, is never decoded.
C5_Outside200To299HalfOpen ==
  \A c \in Calls :
    pc[c] = "body" => response[c].status >= 200 /\ response[c].status < 299
\* C5 (amended): only a response with a status in 200..299 is decoded, and a
\* call all of whose four attempts were answered with a status outside
\* 200..299 has waited 1000, 2000, 4000 ms and rejects with the generic
\* server failure.
C5_NonOkStatusExhaustsRetries ==
  \A c \in Calls :
    /\ pc[c] = "body" => response[c].status \in 200..299
    /\ (failures[c] = "status" /\ pc[c] = "done" /\ outcome[c].state # "resolved")
         => /\ outcome[c] = Rejected(ErrServer)
            /\ waited[c] = Schedule
            /\ fetches[c] = MAX_RETRIES + 1
C5_Witness ==
  \E c \in Calls :
    failures[c] = "status" /\ outcome[c] = Rejected(ErrServer) /\ ~aborted[c]

\* C6 (as stated): a rejected call carries the terminal error that the way
\* its final attempt (attempt MAX_RETRIES) failed selects: cancelled for an
\* abort, network-unreachable for a fetch-level failure, the generic server
\* failure for anything else.
C6_TerminalErrorByFinalFailure ==
  \A c \in Calls :
    outcome[c].state = "rejected" =>
      /\ retries[c] = MAX_RETRIES
      /\ outcome[c].error =
           CASE lastFailure[c] = "abort" -> ErrCancelled
             [] lastFailure[c] = "network" -> ErrNetwork
             [] OTHER -> ErrServer

\* C7: a timeout fails the attempt (retry with backoff before the last
\* attempt, the generic failure on the last) and leaves its request
\* outstanding; when such an abandoned request settles later, position,
\* attempt counter, errors, response and outcome of its call stay as they are.
C7_LateResponseDiscarded ==
  [][/\ \A r \in inflight :
          (Abandoned(r) /\ r \notin inflight')
            => /\ pc'[r.call] = pc[r.call]
               /\ retries'[r.call] = retries[r.call]
               /\ lastError'[r.call] = lastError[r.call]
               /\ response'[r.call] = response[r.call]
               /\ outcome'[r.call] = outcome[r.call]
               /\ fetches'[r.call] = fetches[r.call]
               /\ waited'[r.call] = waited[r.call]
     /\ \A c \in Calls :
          (pc[c] = "fetch" /\ ~aborted[c] /\ pc'[c] \in {"backoff", "done"}
             /\ lastFailure'[c] = "timeout" /\ Request(c, retries[c]) \in inflight')
            => IF retries[c] < MAX_RETRIES
               THEN /\ pc'[c] = "backoff"
                    /\ retries'[c] = retries[c] + 1
                    /\ lastError'[c] = TimeoutError
                    /\ ~Settled(c) /\ outcome'[c] = outcome[c]
               ELSE outcome'[c] = Rejected(ErrServer)]_vars
\* an attempt has timed out and its abandoned request has since settled
C7_Witness ==
  \E c \in Calls :
    /\ failures[c] = "timeout" /\ ~aborted[c]
    /\ pc[c] = "fetch" /\ retries[c] = 1
    /\ RequestsOf(c) = {Request(c, 1)}

\* C8 (as stated): a call has at most one request outstanding at any moment.
C8_OneRequestOutstanding ==
  \A c \in Calls : Cardinality(RequestsOf(c)) <= 1
\* C8 (amended): a request is issued only for the attempt in progress, after
\* all earlier attempts have failed; a call has more than one request
\* outstanding only when an earlier attempt ended by timeout, whose request
\* is abandoned, not cancelled.
C8_SequentialAttempts ==
  \A c \in Calls :
    /\ \A r \in RequestsOf(c) : r.attempt <= retries[c]
    /\ Cardinality(RequestsOf(c)) <= retries[c] + 1
    /\ Cardinality(RequestsOf(c)) > 1 => failures[c] \in {"timeout", "mixed"}
    /\ pc[c] \in {"fetch", "body"} /\ ~aborted[c] =>
         Request(c, retries[c]) \in inflight
C8_Witness ==
  \E c \in Calls :
    /\ Cardinality(RequestsOf(c)) = 2
    /\ pc[c] = "fetch" /\ retries[c] = 1

\* C9: at most one unsettled call has a signal that is not triggered, and it
\* is the most recent call, whose controller the instance holds; no request
\* of a call with a triggered signal is outstanding.
C9_OneLiveSignal ==
  /\ \A c \in Calls :
       (Started(c) /\ ~Settled(c) /\ ~aborted[c])
         => /\ abortController = c
            /\ \A d \in Calls : d > c => ~Started(d)
  /\ Cardinality({c \in Calls : Started(c) /\ ~Settled(c) /\ ~aborted[c]}) <= 1
  /\ \A r \in inflight : ~aborted[r.call]
C9_Witness ==
  \E c \in Calls :
    /\ Superseded(c) /\ ~Settled(c) /\ aborted[c]
    /\ pc[c + 1] = "fetch" /\ ~aborted[c + 1]

\* C10: when the first three attempts of a call timed out and the fourth
\* reads the structured reply (success true, textResponse the JSON text of
\* { answer: "ok" }, audioResponse data:audio/mpeg;base64,AAA=), the call
\* resolves with text "ok" and the reference of a newly created audio blob,
\* having waited 1000, 2000 and 4000 ms.
C10_ThreeTimeoutsThenReply ==
  [][\A c \in Calls :
       (/\ pc[c] = "body" /\ pc'[c] # "body" /\ ~aborted[c]
        /\ response[c].body = StructuredOk
        /\ failures[c] = "timeout" /\ retries[c] = MAX_RETRIES)
         => /\ outcome'[c] =
                 Resolved(JsonResult(JStr(<<"ok">>), Len(objectUrls')))
            /\ Len(objectUrls') = Len(objectUrls) + 1
            /\ objectUrls'[Len(objectUrls')] = AudioBlob(<<"A", "A", "A">>)
            /\ waited'[c] = <<1000, 2000, 4000>>
            /\ fetches'[c] = 4]_vars
C10_Witness ==
  \E c \in Calls :
    /\ outcome[c] = Resolved(JsonResult(JStr(<<"ok">>), 1))
    /\ failures[c] = "timeout" /\ retries[c] = MAX_RETRIES
    /\ waited[c] = <<1000, 2000, 4000>>

\* The step in which call c leaves the body phase having read its reply.
ReadsReply(c) == pc[c] = "body" /\ pc'[c] # "body" /\ ~aborted[c]
IsJsonObject(body) == body.kind = "json" /\ body.value.t = "object"
\* The value that the JSON text in a textResponse string denotes.
ParsedText(tr) == JsonParse(tr.v).value
\* textResponse is a string holding the JSON text of an object.
IsEncodedObject(tr) ==
  tr.t = "string" /\ JsonParse(tr.v).ok /\ ParsedText(tr).t = "object"
HasDataAudioPrefix(s) ==
  Len(s) >= 3 /\ s[1] = "data:audio/" /\ s[3] = ";base64,"
Base64Part(s) == IF HasDataAudioPrefix(s) THEN SubSeq(s, 4, Len(s)) ELSE s
\* audioResponse is a non-empty string whose base64 part atob accepts.
ValidAudio(au) ==
  au.t = "string" /\ au.v # EmptyStr /\ Atob(Base64Part(au.v)).ok
StructuredFlagged(body) ==
  /\ IsJsonObject(body)
  /\ Get(body.value, "success") = JBool(TRUE)

\* C11: when an attempt reads a 2xx reply with success true, a textResponse
\* that is the JSON text of an object with a non-empty answer, and an
\* audioResponse that is valid base64 with or without the data:audio/ prefix,
\* the call resolves in that step with the parsed answer as text and the
\* reference of a blob created from the decoded audio.
C11_WellFormedStructuredResolves ==
  [][\A c \in Calls :
       (/\ ReadsReply(c)
        /\ StructuredFlagged(response[c].body)
        /\ IsEncodedObject(Get(response[c].body.value, "textResponse"))
        /\ Truthy(Get(ParsedText(Get(response[c].body.value, "textResponse")),
                      "answer"))
        /\ ValidAudio(Get(response[c].body.value, "audioResponse")))
         => LET data == response[c].body.value
                answer == Get(ParsedText(Get(data, "textResponse")), "answer")
                chars == Atob(Base64Part(Get(data, "audioResponse").v)).chars
            IN /\ outcome'[c] =
                    Resolved(JsonResult(answer, Len(objectUrls) + 1))
               /\ objectUrls' =
                    Append(objectUrls,
                           [type |-> "audio/mpeg",
                            size |-> (6 * Len(chars)) \div 8, data |-> chars])
               /\ retries'[c] = retries[c]
               /\ pc'[c] = "done"]_vars
\* the third attempt read such a reply whose audio has no prefix
C11_Witness ==
  /\ outcome[1] = Resolved(JsonResult(JStr(<<"ok">>), 1))
  /\ objectUrls = <<AudioBlob(<<"A", "A", "A", "A">>)>>
  /\ retries[1] = 2

\* The string is base64 in the forgiving sense: whitespace apart, characters
\* of the alphabet, at most two padding signs closing a multiple of four,
\* and not one character over a multiple of four.
IsForgivingBase64(s) ==
  LET t == SelectSeq(s, LAMBDA ch : ch \notin AsciiWhitespace)
      n == Len(t)
      pad == IF n > 0 /\ n % 4 = 0 /\ t[n] = "="
             THEN IF t[n - 1] = "=" THEN 2 ELSE 1
             ELSE 0
  IN /\ (n - pad) % 4 # 1
     /\ \A i \in 1..(n - pad) : t[i] \in B64Alphabet
\* The reply takes the structured branch and its audio cannot be decoded.
HasUndecodableAudio(body) ==
  /\ StructuredFlagged(body)
  /\ Truthy(Get(body.value, "textResponse"))
  /\ Truthy(Get(body.value, "audioResponse"))
  /\ LET au == Get(body.value, "audioResponse")
     IN au.t = "string" => ~IsForgivingBase64(Base64Part(au.v))

\* C12 (as stated): when an attempt reads a 2xx structured reply whose
\* audioResponse is present but not valid base64, the call resolves in that
\* step with a text-only result; it neither rejects nor retries.
C12_UndecodableAudioAlwaysResolves ==
  [][\A c \in Calls :
       (ReadsReply(c) /\ HasUndecodableAudio(response[c].body))
         => /\ outcome'[c].state = "resolved"
            /\ ~outcome'[c].result.json
            /\ outcome'[c].result.audioUrl = 0
            /\ retries'[c] = retries[c]]_vars
\* C12 (amended): the same, for replies whose textResponse does not denote
\* null: the text is the answer of the parsed textResponse, else its
\* response, else the placeholder (the textResponse itself when it is not
\* JSON), audioUrl is null and no blob is registered.
C12_UndecodableAudioTextOnly ==
  [][\A c \in Calls :
       (/\ ReadsReply(c) /\ HasUndecodableAudio(response[c].body)
        /\ CanRead(ParseTextResponse(Get(response[c].body.value,
                                         "textResponse"))))
         => LET textData ==
                  ParseTextResponse(Get(response[c].body.value, "textResponse"))
                text == Or(Or(Get(textData, "answer"),
                              Get(textData, "response")), JStr(Placeholder))
            IN /\ outcome'[c] =
                    Resolved([json |-> FALSE, text |-> text, audioUrl |-> 0])
               /\ objectUrls' = objectUrls
               /\ retries'[c] = retries[c]
               /\ pc'[c] = "done"]_vars
\* the second attempt read a structured reply with undecodable audio and a
\* textResponse that is not JSON
C12_Witness ==
  /\ outcome[1] = Resolved(PlainResult(JStr(<<"just text">>)))
  /\ objectUrls = <<>>
  /\ retries[1] = 1

\* The decoded body is a JSON value other than null that does not take the
\* structured branch: success, textResponse or audioResponse is missing.
IsLegacyShape(body) ==
  /\ body.kind = "json"
  /\ body.value # JNull
  /\ ~(/\ Truthy(Get(body.value, "success"))
       /\ Truthy(Get(body.value, "textResponse"))
       /\ Truthy(Get(body.value, "audioResponse")))
\* answer if it is present and not empty, else response likewise, else the
\* placeholder
AnswerElseResponse(x) ==
  IF Truthy(Get(x, "answer")) THEN Get(x, "answer")
  ELSE IF Truthy(Get(x, "response")) THEN Get(x, "response")
       ELSE JStr(Placeholder)

\* C13: when an attempt reads a 2xx JSON reply of the legacy shape, the call
\* resolves in that step with the reply's answer, else its response, else the
\* placeholder as text, without audio; the reply { answer: "hello" } gives
\* the text "hello" and no audio.
C13_LegacyReplyResolves ==
  [][\A c \in Calls :
       (ReadsReply(c) /\ IsLegacyShape(response[c].body))
         => /\ outcome'[c] =
                 Resolved([json |-> FALSE,
                           text |-> AnswerElseResponse(response[c].body.value),
                           audioUrl |-> 0])
            /\ response[c].body = LegacyHello
                 => outcome'[c].result.text = JStr(<<"hello">>)
            /\ objectUrls' = objectUrls
            /\ retries'[c] = retries[c]
            /\ pc'[c] = "done"]_vars
\* the first attempt read a legacy reply with the answer "hello"
C13_Witness ==
  /\ outcome[1] = Resolved(PlainResult(JStr(<<"hello">>)))
  /\ retries[1] = 0
  /\ fetches[1] = 1

\* The value in which the reply carries its text: the parsed textResponse of
\* a structured reply, else the decoded body itself.
TextCarrier(body) ==
  LET data == DecodeBody(body).data
  IN IF /\ Truthy(Get(data, "success"))
        /\ Truthy(Get(data, "textResponse"))
        /\ Truthy(Get(data, "audioResponse"))
     THEN ParseTextResponse(Get(data, "textResponse"))
     ELSE data

\* C14: the text of a resolved result is never empty, and it is the
\* placeholder whenever the reply read carries neither a non-empty answer nor
\* a non-empty response.
C14_TextNeverEmpty ==
  [][\A c \in Calls :
       outcome'[c].state = "resolved"
         => /\ outcome'[c].result.text.t = "string"
            /\ outcome'[c].result.text.v # EmptyStr
            /\ (/\ ReadsReply(c)
                /\ ~Truthy(Get(TextCarrier(response[c].body), "answer"))
                /\ ~Truthy(Get(TextCarrier(response[c].body), "response")))
                 => outcome'[c].result.text = JStr(Placeholder)]_vars
\* a structured reply whose textResponse is the JSON text of {} resolved
\* with audio and the placeholder
C14_Witness ==
  /\ outcome[1] = Resolved(JsonResult(JStr(Placeholder), 1))
  /\ Len(objectUrls) = 1

\* C15 (as stated): when an attempt before the last reads a 2xx response
\* whose body can be read neither as JSON nor as text, the call resolves with
\* the placeholder text.
C15_UnreadableBodyResolves ==
  [][\A c \in Calls :
       (/\ ReadsReply(c) /\ response[c].body = BrokenBody
        /\ retries[c] < MAX_RETRIES)
         => /\ outcome'[c].state = "resolved"
            /\ outcome'[c].result.text = JStr(Placeholder)]_vars
\* C15 (amended): such a response fails the attempt with the parse error:
\* before the last attempt the call goes on to the next attempt after the
\* backoff, unsettled; on the last attempt it rejects with the generic
\* failure; no result comes from that response.
C15_UnreadableBodyFailsAttempt ==
  [][\A c \in Calls :
       (ReadsReply(c) /\ response[c].body = BrokenBody)
         => /\ outcome'[c].state # "resolved"
            /\ objectUrls' = objectUrls
            /\ IF retries[c] < MAX_RETRIES
               THEN /\ pc'[c] = "backoff"
                    /\ retries'[c] = retries[c] + 1
                    /\ lastError'[c] = ParseError
                    /\ outcome'[c] = Pending
               ELSE /\ pc'[c] = "done"
                    /\ outcome'[c] = Rejected(ErrServer)]_vars
\* the first attempt read an unreadable body and the call awaits its backoff
C15_Witness ==
  /\ pc[1] = "backoff" /\ retries[1] = 1
  /\ lastError[1] = ParseError /\ failures[1] = "decode"
  /\ outcome[1] = Pending

\* C16: when an attempt reads a 2xx response whose body is text that is not
\* JSON, the call resolves in that step, without retry: the text is wrapped
\* as { textResponse: text }, the result is the placeholder without audio,
\* and the text of the body is not what the caller gets.
C16_PlainTextBodyGivesPlaceholder ==
  [][\A c \in Calls :
       (/\ ReadsReply(c) /\ response[c].body.kind = "text"
        /\ ~JsonParse(response[c].body.text).ok)
         => /\ decoded'[c] =
                 [t |-> "object",
                  f |-> [success |-> Undefined,
                         textResponse |-> JStr(response[c].body.text),
                         audioResponse |-> Undefined,
                         answer |-> Undefined, response |-> Undefined]]
            /\ outcome'[c] =
                 Resolved([json |-> FALSE, text |-> JStr(Placeholder),
                           audioUrl |-> 0])
            /\ outcome'[c].result.text # JStr(response[c].body.text)
            /\ objectUrls' = objectUrls
            /\ retries'[c] = retries[c]
            /\ pc'[c] = "done"]_vars
\* the first attempt read the body "plain text" and the call has resolved
C16_Witness ==
  /\ Get(decoded[1], "textResponse") = JStr(<<"plain text">>)
  /\ Get(decoded[1], "success") = Undefined
  /\ outcome[1] = Resolved(PlainResult(JStr(Placeholder)))
  /\ retries[1] = 0

\* Field access throws while the reply is normalized: the decoded body is
\* null, or the reply takes the structured branch and its textResponse
\* denotes null.
NormalizationThrows(body) ==
  /\ body.kind = "json"
  /\ \/ body.value = JNull
     \/ /\ StructuredFlagged(body)
        /\ Truthy(Get(body.value, "textResponse"))
        /\ Truthy(Get(body.value, "audioResponse"))
        /\ ParseTextResponse(Get(body.value, "textResponse")) = JNull

\* C17: when an attempt reads a 2xx reply on which normalization throws, the
\* attempt has failed: before the last attempt the call goes on to the next
\* attempt after the backoff, keeping the TypeError as its last error; on the
\* last attempt it rejects with the generic failure; it does not resolve.
C17_NormalizationFailureRetried ==
  [][\A c \in Calls :
       (ReadsReply(c) /\ NormalizationThrows(response[c].body))
         => /\ outcome'[c].state # "resolved"
            /\ lastFailure'[c] = "decode"
            /\ IF retries[c] < MAX_RETRIES
               THEN /\ pc'[c] = "backoff"
                    /\ retries'[c] = retries[c] + 1
                    /\ lastError'[c].name = "TypeError"
                    /\ outcome'[c] = Pending
               ELSE /\ pc'[c] = "done"
                    /\ outcome'[c] = Rejected(ErrServer)]_vars
\* all four attempts failed in decoding, the last on the body null, after
\* the three backoff delays
C17_Witness ==
  /\ decoded[1] = JNull
  /\ outcome[1] = Rejected(ErrServer)
  /\ failures[1] = "decode" /\ retries[1] = MAX_RETRIES
  /\ waited[1] = <<1000, 2000, 4000>>

\* C18 (as stated): over one call at most one object URL is created, and
\* only by the attempt whose result, carrying that reference, the call
\* resolves with.
C18_OneReferenceOnlyWhenReturned ==
  /\ Len(objectUrls) <= 1
  /\ Len(objectUrls) = 1
       => /\ outcome[1].state = "resolved"
          /\ outcome[1].result.audioUrl = 1

\* Calls c and d have both resolved from the same decoded reply.
SameReplyResolved(c, d) ==
  /\ c # d
  /\ outcome[c].state = "resolved" /\ outcome[d].state = "resolved"
  /\ decoded[c] = decoded[d]

\* C19 (as stated): two calls that normalize the same reply resolve with
\* identical results, text and audioUrl included.
C19_SameReplySameResult ==
  \A c, d \in Calls :
    SameReplyResolved(c, d) => outcome[c].result = outcome[d].result
\* C19 (amended): two calls that normalize the same reply resolve with the
\* same text in the same form; with audio, their audioUrl are two different
\* references, each to a blob of its own, and the two blobs are equal.
C19_SameReplySameTextOwnReference ==
  \A c, d \in Calls :
    SameReplyResolved(c, d)
      => /\ outcome[c].result.text = outcome[d].result.text
         /\ outcome[c].result.json = outcome[d].result.json
         /\ (outcome[c].result.audioUrl = 0) = (outcome[d].result.audioUrl = 0)
         /\ outcome[c].result.audioUrl # 0
              => /\ outcome[c].result.audioUrl # outcome[d].result.audioUrl
                 /\ outcome[c].result.audioUrl \in 1..Len(objectUrls)
                 /\ outcome[d].result.audioUrl \in 1..Len(objectUrls)
                 /\ objectUrls[outcome[c].result.audioUrl]
                      = objectUrls[outcome[d].result.audioUrl]
\* two calls in a row have resolved from the same structured reply
C19_Witness ==
  /\ decoded[1] = StructuredOk.value /\ decoded[2] = StructuredOk.value
  /\ outcome[1] = Resolved(JsonResult(JStr(<<"ok">>), 1))
  /\ outcome[2] = Resolved(JsonResult(JStr(<<"ok">>), 2))

\* C20: every attempt of a call uploads one and the same blob, which has the
\* bytes of the input blob; on a mobile user agent with an input type that
\* does not contain webm its type is audio/webm, otherwise it is the input
\* blob unchanged.
C20_UploadKeepsBytes ==
  \A c \in Calls :
    Started(c)
      => /\ Len(uploads[c]) = fetches[c]
         /\ \A i \in 1..Len(uploads[c]) :
              /\ uploads[c][i] = uploads[c][1]
              /\ uploads[c][i].data = audioBlob[c].data
              /\ uploads[c][i].size = audioBlob[c].size
              /\ IF IsMobile(userAgent) /\ ~Includes(audioBlob[c].type, "webm")
                 THEN uploads[c][i].type = <<"audio/", "webm">>
                 ELSE uploads[c][i] = audioBlob[c]
\* on a phone, the second attempt has uploaded an mp4 recording as audio/webm
C20_Witness ==
  /\ IsMobile(userAgent)
  /\ audioBlob[1] = Blob(<<1, 2>>, <<"audio/", "mp4">>)
  /\ Len(uploads[1]) = 2
  /\ uploads[1][2] = Blob(<<1, 2>>, <<"audio/", "webm">>)

\* C21 (as stated): a call that has been made eventually settles, whatever
\* the server does or fails to do.
C21_EveryCallSettles == \A c \in {1} : Started(c) ~> Settled(c)

\* Everything the model keeps for call d stays as it is in the step.
CallUntouched(d) ==
  /\ pc'[d] = pc[d] /\ retries'[d] = retries[d]
  /\ aborted'[d] = aborted[d] /\ outcome'[d] = outcome[d]
  /\ lastError'[d] = lastError[d] /\ response'[d] = response[d]
  /\ waited'[d] = waited[d] /\ fetches'[d] = fetches[d]
  /\ uploads'[d] = uploads[d]
  /\ {r \in inflight' : r.call = d} = RequestsOf(d)
\* The step is a step of the loop of call c.
StepOfCall(c) ==
  pc'[c] # pc[c] \/ retries'[c] # retries[c] \/ fetches'[c] # fetches[c]

\* C24: the signal of a call is triggered only by a step that replaces or
\* clears the controller the instance holds (a later call, or cleanup); an
\* attempt that a call starts after its own signal was triggered is rejected
\* at once and issues no request; and a step of a superseded call leaves
\* every later call untouched.
C24_CancellationPerCall ==
  [][\A c \in Calls :
       /\ (aborted'[c] /\ ~aborted[c])
            => abortController = c /\ abortController' # c
       /\ (aborted[c] /\ fetches'[c] > fetches[c])
            => /\ {r \in inflight' : r.call = c} = {}
               /\ pc'[c] \in {"backoff", "done"}
               /\ lastFailure'[c] = "abort"
       /\ (Started(c) /\ StepOfCall(c))
            => \A d \in Calls : d > c => CallUntouched(d)]_vars
\* the superseded first call has gone through two more attempts, both
\* rejected by its own signal, while the second call read its reply
C24_Witness ==
  /\ aborted[1] /\ retries[1] >= 2 /\ failures[1] = "abort"
  /\ ~aborted[2] /\ outcome[2].state = "resolved" /\ retries[2] = 0

\* C25 (as stated): the step that clears the stored controller without
\* storing another triggers its signal; a call whose signal was triggered by
\* cleanup settles only by rejecting with the cancelled error; and a call
\* made afterwards starts with a signal of its own that is not triggered.
C25_CleanupCancelsAndLeavesUsable ==
  [][\A c \in Calls :
       /\ (abortController = c /\ abortController' = 0)
            => /\ aborted'[c]
               /\ {r \in inflight' : r.call = c} = {}
       /\ (aborted[c] /\ ~Superseded(c) /\ ~Settled(c) /\ outcome'[c] # outcome[c])
            => outcome'[c] = Rejected(ErrCancelled)
       /\ (pc[c] = "init" /\ pc'[c] # "init")
            => ~aborted'[c] /\ abortController' = c]_vars

\* The flow of press i takes the settlement of its upload.
TakesSettlement(i) == flow[i] = "uploading" /\ flow'[i] # "uploading"

SettlesRecording(i) ==
  flow[i] \in {"new", "stopping"} /\ flow'[i] \in {"done", "uploading"}

\* C23: the flow never calls sendAudioToWebhook with an empty recording;
\* when stopRecording yields an empty blob, stopRecordingAndSend ends in
\* idle with the recordingFailed error, toast and message, and no call of
\* the service is made.
C23_EmptyRecordingNotUploaded ==
  [][/\ \A c \in Calls :
          (pc[c] = "init" /\ pc'[c] # "init") => audioBlob'[c].size > 0
     /\ \A i \in Flows :
          (SettlesRecording(i) /\ mic.chunks = 0)
            => /\ flow'[i] = "done"
               /\ voiceState' =
                    VoiceState("idle", FALSE, FALSE, RecordingFailed)
               /\ toasts' = RecordingFailed
               /\ "error" \in messages'
               /\ pc' = pc /\ uploads' = uploads /\ inflight' = inflight]_vars
\* A stop with no data has failed, and another one has uploaded its data.
C23_Witness ==
  /\ \E i \in Flows : flow[i] = "done" /\ callOf[i] = 0
                      /\ voiceState.error = RecordingFailed
  /\ \E i \in Flows : callOf[i] # 0 /\ audioBlob[callOf[i]].size > 0

\* stopRecordingAndSend of press i is running.
Running(i) == flow[i] \in {"stopping", "uploading", "playing"}
\* The microphone holds no recorder and no stream.
MicrophoneClean ==
  /\ mic.mediaRecorderRef = "null" /\ mic.streamRef = "null"
  /\ ~mic.isRecording

UploadEnded(i) == flow[i] = "done" /\ callOf[i] # 0

\* C27: once the flow has ended an upload, by the 20 s guard as well, the
\* call of sendAudioToWebhook it made is finished: it has settled, so no
\* attempt of it is pending or started later and no reply reaches it later.
C27_GivenUpCallFinished ==
  \A i \in Flows : UploadEnded(i) => pc[callOf[i]] = "done"

\* Call c is under way: made and not settled.
UnderWay(c) == pc[c] \notin {"init", "done"}

\* C28: reset aborts the upload that is in flight, and no interaction
\* that was started before a reset appends a message, plays audio or
\* changes the status after it.
C28_ResetLeavesConversationClean ==
  [][/\ resets' # resets
          => \A c \in Calls : UnderWay(c) => aborted'[c]
     /\ \A i \in stale :
          flow'[i] # flow[i]
            => /\ messages' = messages
               /\ voiceState' = voiceState
               /\ playing' = playing]_vars

\* A MediaRecorder records or a microphone stream has live tracks.
MicrophoneLive == mic.activeRecorders > 0 \/ mic.liveStreams > 0

\* C29: the microphone is live only while the conversation is in status
\* recording.
C29_MicrophoneLiveOnlyWhileRecording ==
  MicrophoneLive => voiceState.status = "recording"
\* The same, for the states in which no flow is under way: the microphone
\* is not left live once every press has been dealt with.
C29_MicrophoneLiveOnlyWhileRecordingAtRest ==
  (MicrophoneLive /\ \A i \in Flows : flow[i] \in {"new", "done"})
    => voiceState.status = "recording"

\* The step is a press that enters handleVoiceInteraction.
Pressed(i) == flow[i] = "new" /\ flow'[i] # "new"
\* The interaction of press i is being processed: its greeting is played,
\* or its stopRecordingAndSend runs.
Processed(i) == flow[i] = "greeting" \/ Running(i)

\* C30, the button: a press is taken only in status idle or with
\* isWaitingForClick, and isWaitingForClick is false in the statuses
\* greeting, sending, waiting and playing.
C30_ButtonGuard ==
  /\ [][\A i \in Flows :
          Pressed(i) => voiceState.status = "idle" \/ isWaitingForClick]_vars
  /\ [](voiceState.status \in {"greeting", "sending", "waiting", "playing"}
          => ~isWaitingForClick)
\* C30: with that, no press enters handleVoiceInteraction while an
\* interaction is being processed, and at most one stopRecordingAndSend
\* runs at a time.
C30_OneInteractionAtATime ==
  /\ C30_ButtonGuard
  /\ [][\A i \in Flows :
          Pressed(i) => \A j \in Flows : ~Processed(j)]_vars
  /\ [](\A i, j \in Flows : Running(i) /\ Running(j) => i = j)

\* ---------------------------------------------------------------------
\* The useMicrophone hook on its own, against the browser

\* cleanup: a recorder that records is stopped (its last events are still to
\* come), the tracks of the stream are stopped, the refs are cleared; the
\* copy of utils/translations.ts keeps the chunks, the other two drop them.
HookCleanup(h) ==
  LET r == h.mediaRecorderRef
      s == h.streamRef
  IN  [h EXCEPT
         !.recorders = IF r # 0 /\ h.recorders[r].state = "recording"
                       THEN [@ EXCEPT ![r].state = "stopping"] ELSE @,
         !.mediaRecorderRef = 0,
         !.streams = IF s # 0 THEN [@ EXCEPT ![s] = "ended"] ELSE @,
         !.streamRef = 0,
         !.isRecording = FALSE,
         !.chunksRef = IF h.version = "translations" THEN @ ELSE <<>>]

\* What unnamed/part_000 does in place of cleanup in its timeout and onstop
\* handlers: the tracks are stopped, the recorder ref and the chunks stay.
StopStream(h) ==
  LET s == h.streamRef
  IN  [h EXCEPT
         !.streams = IF s # 0 THEN [@ EXCEPT ![s] = "ended"] ELSE @,
         !.streamRef = 0,
         !.isRecording = FALSE]

\* The hook after a handler of stopRecording has built its blob.
AfterRecording(h) ==
  IF h.version = "part_000" THEN StopStream(h) ELSE HookCleanup(h)

\* getAudioBlobFromChunks of a stopRecording call that found recorder r
\* (0: none) when it was made.
HookBlob(h, r) ==
  CASE h.version = "hooks" ->
         Blob(h.chunksRef, IF r = 0 THEN WebmType ELSE RecorderMimeType)
    [] h.version = "translations" ->
         IF h.chunksRef = <<>> THEN Blob(<<>>, WebmType)
         ELSE Blob(h.chunksRef,
                   IF h.mediaRecorderRef = 0 THEN WebmType ELSE RecorderMimeType)
    [] OTHER -> Blob(h.chunksRef, WebmType)

\* The blob of stopRecording when there is nothing to stop.
SalvagedBlob(h) ==
  IF h.version = "part_000" \/ h.chunksRef = <<>> THEN Blob(<<>>, WebmType)
  ELSE HookBlob(h, h.mediaRecorderRef)

\* Variant: a promise that takes every resolve and reject, also after it
\* has settled.
SettleAgain(st, state, blob, by) ==
  [st EXCEPT !.state = state, !.blob = blob, !.by = by]

\* resolve and reject of the promise of stopRecording: a promise settles once.
Settle(st, state, blob, by) ==
  IF st.state = "pending"
  THEN [st EXCEPT !.state = state, !.blob = blob, !.by = by]
  ELSE st

\* startRecording up to its await of getUserMedia.
HookStartRecording(s) ==
  /\ hook.starts[s] = "new"
  /\ hook.calls < MaxHookCalls
  /\ \A t \in Starts : t < s => hook.starts[t] # "new"
  /\ hook' = LET h == IF hook.version = "translations"
                      THEN [HookCleanup(hook) EXCEPT !.chunksRef = <<>>]
                      ELSE hook
             IN  [h EXCEPT !.starts[s] = "awaiting", !.calls = @ + 1]
  /\ UNCHANGED <<serviceVars, convVars, pwa>>

\* getUserMedia settles and startRecording goes on: the permission is
\* refused ("denied"), or the stream is there and the constructor of the
\* recorder throws ("create"), or its start throws ("start"), or the
\* recording begins ("granted").
GetUserMediaSettles(s, how) ==
  /\ hook.starts[s] = "awaiting"
  /\ LET caught(h) == IF hook.version = "translations"
                      THEN HookCleanup(h) ELSE h
         acquired == [hook EXCEPT
                        !.hasPermission = "true",
                        !.streams[s] = "live",
                        !.streamRef = s,
                        !.chunksRef = IF hook.version = "translations"
                                      THEN @ ELSE <<>>]
         created == [acquired EXCEPT
                        !.mediaRecorderRef = s,
                        !.recorders[s].state = "inactive"]
     IN  hook' =
           CASE how = "denied" ->
                  [caught([hook EXCEPT !.hasPermission = "false"])
                     EXCEPT !.starts[s] = "failed"]
             [] how = "create" ->
                  [caught(acquired) EXCEPT !.starts[s] = "failed"]
             [] how = "start" ->
                  [caught(IF hook.version = "translations"
                          THEN [created EXCEPT !.isRecording = TRUE]
                          ELSE created)
                     EXCEPT !.starts[s] = "failed"]
             [] OTHER ->
                  [created EXCEPT
                     !.recorders[s].state = "recording",
                     !.isRecording = TRUE,
                     !.starts[s] = "done"]
  /\ UNCHANGED <<serviceVars, convVars, pwa>>

\* A dataavailable event of recorder r: ondataavailable pushes the chunk,
\* which is known by its recorder and its place among the chunks of the run.
OnDataAvailable(r) ==
  /\ hook.recorders[r].state \in {"recording", "stopping", "errored"}
  /\ hook.delivered < MaxChunks
  /\ hook' = [hook EXCEPT
                !.delivered = @ + 1,
                !.chunksRef = Append(@, <<r, hook.delivered + 1>>)]
  /\ UNCHANGED <<serviceVars, convVars, pwa>>

\* stopRecording: with nothing to stop the promise is resolved at once,
\* else the safety timer is set, the handlers are attached and the recorder
\* is told to stop.
HookStopRecording(p) ==
  /\ hook.stops[p].state = "new"
  /\ hook.calls < MaxHookCalls
  /\ \A q \in Stops : q < p => hook.stops[q].state # "new"
  /\ LET r == hook.mediaRecorderRef
     IN  hook' =
           IF r = 0 \/ hook.recorders[r].state # "recording"
           THEN [hook EXCEPT
                   !.calls = @ + 1,
                   !.isRecording = FALSE,
                   !.stops[p] = [NoStop EXCEPT !.state = "resolved",
                                               !.blob = SalvagedBlob(hook),
                                               !.rec = r,
                                               !.by = "call"]]
           ELSE [hook EXCEPT
                   !.calls = @ + 1,
                   !.recorders[r].state = "stopping",
                   !.recorders[r].onstop = p,
                   !.stops[p] = [NoStop EXCEPT !.state = "pending",
                                               !.timer = TRUE,
                                               !.rec = r]]
  /\ UNCHANGED <<serviceVars, convVars, pwa>>

\* The stop event of recorder r, with the onstop handler of the
\* stopRecording call that stopped it, if one did.
OnStop(r) ==
  /\ hook.recorders[r].state \in {"stopping", "errored"}
  /\ LET p == hook.recorders[r].onstop
         stopped == [hook EXCEPT !.recorders[r].state = "stopped"]
     IN  hook' =
           IF p = 0 THEN stopped
           ELSE [AfterRecording(stopped) EXCEPT
                   !.stops[p] = [Settle(@, "resolved",
                                        HookBlob(hook, hook.stops[p].rec),
                                        "stop")
                                   EXCEPT !.timer = FALSE]]
  /\ UNCHANGED <<serviceVars, convVars, pwa>>

\* An error event of a recorder that stopRecording stopped: onerror.
OnError(r) ==
  /\ hook.recorders[r].state = "stopping"
  /\ hook.recorders[r].onstop # 0
  /\ LET p == hook.recorders[r].onstop
         blob == HookBlob(hook, hook.stops[p].rec)
         errored == [hook EXCEPT !.recorders[r].state = "errored"]
     IN  hook' =
           IF hook.version = "part_000"
           THEN [errored EXCEPT
                   !.stops[p] = [Settle(@, "rejected", NoUpload, "error")
                                   EXCEPT !.timer = FALSE]]
           ELSE [HookCleanup(errored) EXCEPT
                   !.stops[p] = [Settle(@, IF blob.size > 0 THEN "resolved"
                                           ELSE "rejected",
                                        IF blob.size > 0 THEN blob ELSE NoUpload,
                                        "error")
                                   EXCEPT !.timer = FALSE]]
  /\ UNCHANGED <<serviceVars, convVars, pwa>>

\* The safety timeout of stopRecording call p runs out.
SafetyTimeout(p) ==
  /\ hook.stops[p].timer
  /\ hook' = [AfterRecording(hook) EXCEPT
                !.stops[p] = [Settle(@, "resolved",
                                     HookBlob(hook, hook.stops[p].rec),
                                     "timeout")
                                EXCEPT !.timer = FALSE]]
  /\ UNCHANGED <<serviceVars, convVars, pwa>>

\* cleanup called by the component that uses the hook.
HookCleanupCalled ==
  /\ hook.calls < MaxHookCalls
  /\ hook' = [HookCleanup(hook) EXCEPT !.calls = @ + 1]
  /\ UNCHANGED <<serviceVars, convVars, pwa>>

\* A recorder stops without being told to (its track ended, the browser
\* took the microphone away): its last events are still to come.
RecorderStopsByItself(r) ==
  /\ hook.recorders[r].state = "recording"
  /\ hook' = [hook EXCEPT !.recorders[r].state = "stopping"]
  /\ UNCHANGED <<serviceVars, convVars, pwa>>

InitMicrophone ==
  /\ InitIn(SomeUserAgents)
  /\ hook \in {InitialHook(v) : v \in Versions}
  /\ pwa = InitialPwa
NextMicrophone ==
  \/ \E s \in Starts : HookStartRecording(s)
  \/ \E s \in Starts, how \in {"granted", "denied", "create", "start"} :
       GetUserMediaSettles(s, how)
  \/ \E r \in Starts : OnDataAvailable(r)
  \/ \E p \in Stops : HookStopRecording(p)
  \/ \E r \in Starts : OnStop(r)
  \/ \E r \in Starts : OnError(r)
  \/ \E p \in Stops : SafetyTimeout(p)
  \/ HookCleanupCalled
  \/ \E r \in Starts : RecorderStopsByItself(r)
SpecMicrophone == InitMicrophone /\ [][NextMicrophone]_vars
\* A timer that was set and is not cleared runs out.
SpecMicrophoneTimers ==
  SpecMicrophone /\ WF_vars(\E p \in Stops : SafetyTimeout(p))

\* ---------------------------------------------------------------------
\* Claims about the useMicrophone hook

\* The promise of stopRecording call p has settled.
StopSettled(p) == hook.stops[p].state \in {"resolved", "rejected"}

\* C31: stopRecording on an active recorder always settles. When the safety
\* timeout runs out before the stop event, the promise is resolved with a
\* blob of the chunks collected so far, the recorder is not recording, the
\* stream the hook holds is stopped and released and isRecording is false;
\* a promise that has settled keeps its outcome and its blob whatever
\* event comes later; and no promise stays pending for ever.
C31_StopRecordingSettlesOnce ==
  /\ [][\A p \in Stops :
          /\ hook.stops[p].timer /\ hook'.stops[p].by = "timeout" =>
               /\ hook'.stops[p].state = "resolved"
               /\ hook'.stops[p].blob.data = hook.chunksRef
               /\ hook'.recorders[hook.stops[p].rec].state # "recording"
               /\ hook'.streamRef = 0
               /\ hook.streamRef # 0 => hook'.streams[hook.streamRef] = "ended"
               /\ ~hook'.isRecording
          /\ StopSettled(p) =>
               /\ hook'.stops[p].state = hook.stops[p].state
               /\ hook'.stops[p].blob = hook.stops[p].blob]_vars
  /\ []<>(\A p \in Stops : hook.stops[p].state # "pending")
\* The stop event of a recorder came after the safety timeout had resolved
\* the promise with the chunks of the recording.
C31_Witness ==
  \E p \in Stops :
    /\ hook.stops[p].by = "timeout"
    /\ hook.stops[p].blob.size > 0
    /\ hook.recorders[hook.stops[p].rec].state = "stopped"

\* stopRecording call p is made in this step and finds nothing to stop: no
\* recorder, or a recorder that is not recording.
StopsNothing(p) ==
  /\ hook.stops[p].state = "new"
  /\ hook'.stops[p].state # "new"
  /\ \/ hook.mediaRecorderRef = 0
     \/ hook.recorders[hook.mediaRecorderRef].state # "recording"
\* What the call then has to give: the promise is resolved in the call, with
\* the chunks already collected, or with an empty audio/webm blob when
\* there are none, and isRecording is false.
ResolvesWithChunks(p) ==
  /\ hook'.stops[p].state = "resolved"
  /\ hook'.stops[p].blob.data = hook.chunksRef
  /\ hook.chunksRef = <<>> => hook'.stops[p].blob = Blob(<<>>, WebmType)
  /\ ~hook'.isRecording

\* C32: stopRecording called with no recorder, or with a recorder that is
\* not recording, never rejects and never waits: it resolves with a blob of
\* the chunks already collected if there are any, otherwise with an empty
\* audio/webm blob, and sets isRecording to false.
C32_StopWithoutRecorderResolves ==
  [][\A p \in Stops : StopsNothing(p) => ResolvesWithChunks(p)]_vars
\* The same in the copies of hooks/useMicrophone.ts and utils/translations.ts.
C32_StopWithoutRecorderResolvesSalvaging ==
  [][\A p \in Stops :
       StopsNothing(p) /\ hook.version # "part_000" => ResolvesWithChunks(p)]_vars

\* The chunks in the blob that stopRecording call p was resolved with.
Delivered(p) ==
  IF hook.stops[p].state = "resolved"
  THEN {hook.stops[p].blob.data[k] : k \in 1..Len(hook.stops[p].blob.data)}
  ELSE {}

\* C33: the blob that stopRecording resolves with holds chunks of one
\* recorder only (the one the call found, when it found one), in the order
\* of their arrival, and no chunk is in the results of two stopRecording
\* calls.
C33_BlobIsTheRecording ==
  \A p \in Stops :
    LET data == hook.stops[p].blob.data
    IN  hook.stops[p].state = "resolved" =>
          /\ \A c, d \in Delivered(p) : c[1] = d[1]
          /\ \A c \in Delivered(p) :
                hook.stops[p].rec # 0 => c[1] = hook.stops[p].rec
          /\ \A j, k \in 1..Len(data) : j < k => data[j][2] < data[k][2]
          /\ \A q \in Stops : q # p => Delivered(p) \cap Delivered(q) = {}

\* No stream that startRecording acquired has a live track and no recorder
\* that it created is recording.
Released(h) ==
  \A s \in Starts : h.streams[s] # "live" /\ h.recorders[s].state # "recording"
\* The promise of stopRecording call p settles in this step.
Settles(p) == ~StopSettled(p) /\ hook'.stops[p].state \in {"resolved", "rejected"}

\* C34: when stopRecording has settled or cleanup has run, no stream
\* acquired by startRecording has a live track and no recorder created by
\* the hook is recording.
C34_MicrophoneReleased ==
  [][(HookCleanupCalled \/ \E p \in Stops : Settles(p)) => Released(hook')]_vars

\* startRecording call s fails in this step.
StartFails(s) == hook.starts[s] = "awaiting" /\ hook'.starts[s] = "failed"

\* C35: a failed startRecording leaves no recording state behind. When the
\* permission is denied (no stream was acquired), hasPermission is false
\* and isRecording stays false; when it fails after the stream was
\* acquired, the tracks of that stream are stopped, the recorder reference
\* is cleared and isRecording is false. The error reaches the caller in
\* both cases (the call has failed).
C35_FailedStartLeavesNothing ==
  [][\A s \in Starts :
       StartFails(s) =>
         IF hook'.streams[s] = "none"
         THEN /\ hook'.hasPermission = "false"
              /\ ~hook.isRecording => ~hook'.isRecording
         ELSE /\ hook'.streams[s] # "live"
              /\ hook'.mediaRecorderRef = 0
              /\ ~hook'.isRecording]_vars

\* ---------------------------------------------------------------------
\* The update handling of utils/pwa.ts

\* Variant: the notification is due again from 24 hours on.
ShouldShowFromOneDay(p) ==
  p.lastCheck = -1 \/ p.now - p.lastCheck >= OneDayInMs
\* shouldShowUpdateNotification
ShouldShowUpdateNotification(p) ==
  p.lastCheck = -1 \/ p.now - p.lastCheck > OneDayInMs

\* handleNewServiceWorker(w, p.preferences): the update is applied, or
\* nothing is done, or the notification is put on the page.
HandleNewServiceWorker(p, w) ==
  IF p.preferences.autoUpdate
  THEN [p EXCEPT !.workers[w] = "applied",
                 !.last = [worker |-> w, outcome |-> "applied"]]
  ELSE IF ~ShouldShowUpdateNotification(p)
  THEN [p EXCEPT !.last = [worker |-> w, outcome |-> "skipped"]]
  ELSE [p EXCEPT !.notice = w,
                 !.last = [worker |-> w, outcome |-> "notified"]]

\* The worker that waits, if one does.
Waiting(p) == {w \in Workers : p.workers[w] = "waiting"}

\* registerServiceWorker on page load: the preferences are read once, and
\* a worker that is already waiting is handled.
RegisterServiceWorker ==
  /\ ~pwa.registered
  /\ LET p == [pwa EXCEPT !.registered = TRUE, !.preferences = pwa.stored]
     IN  pwa' = IF Waiting(p) = {} THEN p
                ELSE HandleNewServiceWorker(p, CHOOSE w \in Waiting(p) : TRUE)
  /\ UNCHANGED <<serviceVars, convVars, hook>>

\* A new worker has been installed; the one that waited before is dropped.
\* On a registered page the statechange listener handles it. (The page
\* shows one notification at a time here.)
WorkerInstalled(w) ==
  /\ pwa.workers[w] = "none"
  /\ \A v \in Workers : v < w => pwa.workers[v] # "none"
  /\ pwa.notice = 0
  /\ LET p == [pwa EXCEPT
                 !.workers = [v \in Workers |->
                                IF v = w THEN "waiting"
                                ELSE IF @[v] = "waiting" THEN "redundant"
                                ELSE @[v]]]
     IN  pwa' = IF pwa.registered THEN HandleNewServiceWorker(p, w) ELSE p
  /\ UNCHANGED <<serviceVars, convVars, hook>>

\* The user presses 'Päivitä nyt', the checkbox ticked or not.
UpdateNow(checked) ==
  /\ pwa.notice # 0
  /\ pwa' = [pwa EXCEPT
               !.stored = [autoUpdate |-> checked, lastDecision |-> "accepted"],
               !.notice = 0,
               !.workers[pwa.notice] =
                  IF @ = "waiting" THEN "applied" ELSE @]
  /\ UNCHANGED <<serviceVars, convVars, hook>>

\* The user presses 'Myöhemmin', the checkbox ticked or not.
UpdateLater(checked) ==
  /\ pwa.notice # 0
  /\ pwa' = [pwa EXCEPT
               !.stored = [autoUpdate |-> checked, lastDecision |-> "declined"],
               !.lastCheck = pwa.now,
               !.declinedAt = pwa.now,
               !.notice = 0]
  /\ UNCHANGED <<serviceVars, convVars, hook>>

\* Half a day passes.
ClockTicks ==
  /\ pwa.now < MaxTicks * (OneDayInMs \div 2)
  /\ pwa' = [pwa EXCEPT !.now = @ + OneDayInMs \div 2]
  /\ UNCHANGED <<serviceVars, convVars, hook>>

\* The page is loaded again (by the user, or after controllerchange): what
\* was on the page is gone, registerServiceWorker will run again.
Reload ==
  /\ pwa.registered
  /\ pwa' = [pwa EXCEPT !.registered = FALSE, !.notice = 0,
                        !.preferences = NoPreferences]
  /\ UNCHANGED <<serviceVars, convVars, hook>>

NextPwa ==
  \/ RegisterServiceWorker
  \/ \E w \in Workers : WorkerInstalled(w)
  \/ \E checked \in BOOLEAN : UpdateNow(checked)
  \/ \E checked \in BOOLEAN : UpdateLater(checked)
  \/ ClockTicks
  \/ Reload
SpecPwa == Init /\ [][NextPwa]_vars

\* ---------------------------------------------------------------------
\* Claims about the update handling

\* handleNewServiceWorker is called in this step: a worker becomes
\* installed on a registered page, or is found waiting when the page
\* registers.
HandlesWorker ==
  \/ \E w \in Workers : WorkerInstalled(w) /\ pwa.registered
  \/ RegisterServiceWorker /\ Waiting(pwa) # {}

\* C36: once autoUpdate = true is saved, every worker that becomes
\* installed or is found waiting is applied (SKIP_WAITING sent) and no
\* notification is put on the page, in the page session of the saving too.
C36_AutoUpdateAppliesSilently ==
  [][HandlesWorker /\ pwa.stored.autoUpdate =>
       /\ pwa'.last.outcome = "applied"
       /\ pwa'.workers[pwa'.last.worker] = "applied"
       /\ pwa'.notice = 0]_vars
\* The same for the workers found after the page was loaded again.
C36_AutoUpdateAppliesSilentlyNextSession ==
  [][HandlesWorker /\ pwa.stored.autoUpdate
       /\ pwa'.preferences = pwa.stored =>
       /\ pwa'.last.outcome = "applied"
       /\ pwa'.workers[pwa'.last.worker] = "applied"
       /\ pwa'.notice = 0]_vars

\* The notification is put on the page in this step.
ShowsNotification == pwa.notice = 0 /\ pwa'.notice # 0

====
